---- MODULE Spec2Model ----
(***************************************************************************)
(* State-machine model of the pdf-processor core: the object resolver     *)
(* (PDFObjectResolver) and the file-structure parser                      *)
(* (FileStructureParser).  JavaScript values are modelled as records with *)
(* a field js holding the host type (typeof / Array.isArray / Map) and,   *)
(* for plain objects, the object's own properties as record fields.       *)
(***************************************************************************)
EXTENDS Integers, Sequences, FiniteSets, TLC

VARIABLES
    indirectObjectsMap,   \* PDFObjectResolver.indirectObjectsMap: key -> value of the table object
    resolvedCache,        \* PDFObjectResolver.resolvedCache: keys whose table object is cached
    resolvingStack,       \* PDFObjectResolver.resolvingStack
    parsedMap,            \* the table as the parser produced it (never assigned after Init)
    last,                 \* the last resolveIndirectReference call and how it ended
    tokens,               \* FileStructureParser.tokens
    currentTokenIndex,    \* FileStructureParser.currentTokenIndex
    objects,              \* FileStructureParser.objects
    xrefTable,            \* FileStructureParser.xrefTable
    trailer,              \* FileStructureParser.trailer
    version,              \* FileStructureParser.version
    pc,                   \* where parse() stands
    error,                \* the message of the Error parse() threw, "" if none
    calls,                \* what parseNextObject made of each INTEGER it was called on
    sample,               \* how the token list was put together (never assigned after Init)
    buffer,               \* PDFTokenizer.buffer
    position,             \* PDFTokenizer.position
    emitted,              \* the last nextToken() call and what it handed back
    source,               \* how the buffer was put together (never assigned after Init)
    tree,                 \* the page tree the table holds (never assigned after Init)
    page,                 \* the fields of the PDFPage, and how its constructor ended
    measured,             \* what the getters of the page returned when last called
    _isContentParsed,     \* PDFPage._isContentParsed
    _parsedContent,       \* PDFPage._parsedContent
    tasks,                \* the render() and getTextContent() calls in flight
    fresh                 \* the calls begun since clearContentCache() last ran

resolverVars == <<resolvedCache, resolvingStack, parsedMap, last>>

parserVars ==
    <<tokens, currentTokenIndex, objects, xrefTable, trailer, version, pc, error, calls,
      sample>>

tokenizerVars == <<buffer, position, emitted, source>>

pageVars == <<tree, page, measured>>

contentVars == <<_isContentParsed, _parsedContent, tasks, fresh>>

vars ==
    <<indirectObjectsMap, resolverVars, parserVars, tokenizerVars, pageVars, contentVars>>

---------------------------------------------------------------------------
(* Bounds *)

MaxObj == 2        \* object numbers 1..MaxObj are defined in the table
MaxRefs == 2       \* at most this many references in the whole table
MaxDepth == 8      \* call-stack budget of the host, in nested resolve calls
MaxSections == 2   \* body/xref/trailer sections in a file
MaxFileObjs == 3   \* indirect objects in the bodies of a file, all sections together
MaxValueTokens == 5   \* tokens between the brackets of a sampled array
MaxDictEntries == 3   \* key/value pairs written in a sampled dictionary
MaxXRefEntries == 3   \* entries in the xref sections of a sampled file, all sections together
MaxBytes == 5      \* bytes of a sampled buffer that vary

---------------------------------------------------------------------------
(* JavaScript values *)

Num(n) == [js |-> "number", v |-> n]

ArrayOf(items) == [js |-> "array", items |-> items]

MapOf(entries) == [js |-> "map", entries |-> entries]

Entry(k, v) == [k |-> k, v |-> v]

StreamOf(dict, data) == [js |-> "object", dictionary |-> dict, data |-> data]

Ref(k) == [js |-> "object", objectNumber |-> k[1], generationNumber |-> k[2]]

\* An indirect object that is not the table's own object.
IndObj(n, g, value) ==
    [js |-> "object", objectNumber |-> n, generationNumber |-> g, value |-> value]

\* The marker held in the value field of a handle to the table's own object:
\* the field is read through indirectObjectsMap, so an assignment to
\* pdfObject.value is seen through every handle.
Shared == [js |-> "shared"]

TableObj(k) == IndObj(k[1], k[2], Shared)

KeyOf(ref) == <<ref.objectNumber, ref.generationNumber>>

IsTableObj(obj) ==
    /\ obj.js = "object"
    /\ "value" \in DOMAIN obj
    /\ obj.value = Shared

\* obj.value for an indirect object, through the table when obj is the table's object
ValueField(map, obj) == IF IsTableObj(obj) THEN map[KeyOf(obj)] ELSE obj.value

getPDFObjectType(pdfObject) ==
    IF pdfObject.js = "null" THEN "null"
    ELSE IF pdfObject.js = "number" THEN "number"
    ELSE IF pdfObject.js = "boolean" THEN "boolean"
    ELSE IF pdfObject.js = "string" THEN "string"
    ELSE IF pdfObject.js = "array" THEN "array"
    ELSE IF "data" \in DOMAIN pdfObject /\ "dictionary" \in DOMAIN pdfObject THEN "stream"
    ELSE IF "value" \in DOMAIN pdfObject /\ "objectNumber" \in DOMAIN pdfObject
        THEN "indirect-object"
    ELSE IF "objectNumber" \in DOMAIN pdfObject /\ "generationNumber" \in DOMAIN pdfObject
        THEN "reference"
    ELSE "dictionary"

---------------------------------------------------------------------------
(* PDFObjectResolver *)

\* The resolver's fields, threaded through one call.
ResolverState(map, cache, stack) ==
    [map |-> map, cache |-> cache, stack |-> stack, consulted |-> FALSE]

Return(st, value) == [st |-> st, outcome |-> "ok", value |-> value, err |-> <<0, 0>>]

Throw(st, kind, key) == [st |-> st, outcome |-> kind, value |-> Num(0), err |-> key]

Consult(st) == [st EXCEPT !.consulted = TRUE]

\* this.resolvingStack.has(key), with no cycle detection at all
StackHas_Never(st, key) == FALSE

StackHas(st, key) == key \in st.stack

\* the table lookup that forgets to raise and hands back undefined
UnknownReference_Undefined(st, key) == Return(Consult(st), Num(0))

UnknownReference(st, key) == Throw(Consult(st), "unknown", key)

RECURSIVE resolveIndirectReference(_, _, _, _, _)
RECURSIVE deepResolve(_, _, _, _)
RECURSIVE deepResolveItems(_, _, _, _, _)
RECURSIVE deepResolveEntries(_, _, _, _, _)

resolveIndirectReference(st, indirectReference, isDeepResolve, silent, depth) ==
    LET key == KeyOf(indirectReference) IN
    IF depth > MaxDepth THEN Throw(st, "overflow", key)
    ELSE IF key \in st.cache THEN Return(st, TableObj(key))
    ELSE IF key \notin DOMAIN st.map THEN UnknownReference(st, key)
    ELSE IF StackHas(st, key)
        THEN IF silent THEN Return(Consult(st), TableObj(key))
             ELSE Throw(Consult(st), "circular", key)
    ELSE LET st1 == [Consult(st) EXCEPT !.stack = @ \cup {key}] IN
         IF isDeepResolve
         THEN LET r == deepResolve(st1, st1.map[key], silent, depth) IN
              IF r.outcome # "ok" THEN r
              ELSE Return([r.st EXCEPT !.map[key] = r.value,
                                       !.cache = @ \cup {key},
                                       !.stack = @ \ {key}],
                          TableObj(key))
         ELSE Return([st1 EXCEPT !.stack = @ \ {key}], TableObj(key))

deepResolve(st, pdfObject, silent, depth) ==
    LET pdfObjectType == getPDFObjectType(pdfObject) IN
    IF pdfObjectType \in {"string", "boolean", "null", "number", "stream"}
        THEN Return(st, pdfObject)
    ELSE IF pdfObjectType = "array"
        THEN deepResolveItems(st, pdfObject.items, <<>>, silent, depth)
    ELSE IF pdfObjectType = "dictionary"
        THEN deepResolveEntries(st, pdfObject.entries, <<>>, silent, depth)
    ELSE IF pdfObjectType = "indirect-object"
        THEN Return(st, IndObj(pdfObject.objectNumber, pdfObject.generationNumber,
                               ValueField(st.map, pdfObject)))
    ELSE resolveIndirectReference(st, pdfObject, TRUE, silent, depth + 1)

\* Array.prototype.map over the items, left to right; an exception ends it.
deepResolveItems(st, items, done, silent, depth) ==
    IF items = <<>> THEN Return(st, ArrayOf(done))
    ELSE LET r == deepResolve(st, Head(items), silent, depth) IN
         IF r.outcome # "ok" THEN r
         ELSE deepResolveItems(r.st, Tail(items), Append(done, r.value), silent, depth)

\* Array.from(map).map(...) over the entries in insertion order.
deepResolveEntries(st, entries, done, silent, depth) ==
    IF entries = <<>> THEN Return(st, MapOf(done))
    ELSE LET r == deepResolve(st, Head(entries).v, silent, depth) IN
         IF r.outcome # "ok" THEN r
         ELSE deepResolveEntries(r.st, Tail(entries),
                                 Append(done, Entry(Head(entries).k, r.value)),
                                 silent, depth)

---------------------------------------------------------------------------
(* Tokens (PDFToken) *)

Token(type, value) == [type |-> type, value |-> value]

IntTok(n) == Token("INTEGER", n)

Name(s) == Token("NAME", s)

Kw(s) == Token("KEYWORD", s)

HeaderTok == Token("HEADER", "%PDF-1.7")

ObjStart == Token("OBJ_START", "obj")

ObjEnd == Token("OBJ_END", "endobj")

RTok == Token("INDIRECT_REFERENCE", "R")

ArrayStart == Token("ARRAY_START", "[")

ArrayEnd == Token("ARRAY_END", "]")

DictStart == Token("DICT_START", "<<")

DictEnd == Token("DICT_END", ">>")

StreamTok(data) == Token("STREAM", data)

EofTok == Token("EOF", "null")

---------------------------------------------------------------------------
(* FileStructureParser: the recursive descent over this.tokens *)

Null == [js |-> "null"]

Undefined == [js |-> "undefined"]

Str(s) == [js |-> "string", v |-> s]

\* the value of a BOOLEAN, REAL, STRING, HEX_STRING or NULL token, returned as it is
Primitive(token) ==
    IF token.type = "NULL" THEN Null
    ELSE [js |-> IF token.type = "BOOLEAN" THEN "boolean"
                 ELSE IF token.type = "REAL" THEN "number"
                 ELSE "string",
          v |-> token.value]

RECURSIVE Digits(_)

\* String(n) of a non-negative integer, as its decimal digits
Digits(n) == IF n < 10 THEN <<n>> ELSE Append(Digits(n \div 10), n % 10)

RECURSIVE FromDigits(_)

FromDigits(ds) ==
    IF ds = <<>> THEN 0 ELSE 10 * FromDigits(SubSeq(ds, 1, Len(ds) - 1)) + ds[Len(ds)]

\* parseInt(value, 10) of the number held by an INTEGER token: the number is
\* converted to its decimal string and the string is read back
ParseInt10(n) == IF n < 0 THEN 0 - FromDigits(Digits(0 - n)) ELSE FromDigits(Digits(n))

\* `${objectNumber} ${generationNumber}`
MapKey(objectNumber, generationNumber) == <<objectNumber, generationNumber>>

\* Map.prototype.set that keeps the entry a key already has
TableSet_KeepFirst(map, key, value) ==
    IF key \in DOMAIN map THEN map
    ELSE [k \in DOMAIN map \cup {key} |-> IF k = key THEN value ELSE map[k]]

\* Map.prototype.set on indirectObjectsMap
TableSet(map, key, value) ==
    [k \in DOMAIN map \cup {key} |-> IF k = key THEN value ELSE map[k]]

HasEntry(entries, key) == \E i \in 1 .. Len(entries) : entries[i].k = key

\* Map.prototype.set on a dictionary that keeps the value a key already has
DictSet_KeepFirst(entries, key, value) ==
    IF HasEntry(entries, key) THEN entries ELSE Append(entries, Entry(key, value))

\* Map.prototype.set on a dictionary: a key that is present keeps its place
\* in the insertion order and takes the new value
DictSet(entries, key, value) ==
    IF HasEntry(entries, key)
    THEN [i \in 1 .. Len(entries) |->
             IF entries[i].k = key THEN Entry(key, value) ELSE entries[i]]
    ELSE Append(entries, Entry(key, value))

\* Map.prototype.get
DictGet(entries, key) ==
    IF HasEntry(entries, key)
    THEN entries[CHOOSE i \in 1 .. Len(entries) : entries[i].k = key].v
    ELSE Undefined

\* this.tokens[i], with the index counted from 0 as in the code
TokenAt(toks, i) == toks[i + 1]

TypeAt(toks, i) == TokenAt(toks, i).type

\* The parser's fields that the descent changes: currentTokenIndex, indirectObjectsMap,
\* and a record of what parseNextObject made of each INTEGER token it was called on.
ParserState(idx, map, log) == [idx |-> idx, map |-> map, log |-> log]

Advance(ps, n) == [ps EXCEPT !.idx = @ + n]

Logged(ps, at, kind) == [ps EXCEPT !.log = Append(@, [at |-> at, kind |-> kind])]

Parsed(ps, value) == [ps |-> ps, ok |-> TRUE, value |-> value, err |-> ""]

Failed(ps, message) == [ps |-> ps, ok |-> FALSE, value |-> Undefined, err |-> message]

IsIndirectObjectStart(toks, idx) ==
    /\ idx + 2 < Len(toks)
    /\ TypeAt(toks, idx + 1) = "INTEGER"
    /\ TypeAt(toks, idx + 2) = "OBJ_START"

\* the lookahead that expects `R` to come as a generic keyword token
IsIndirectReferenceStart_Keyword(toks, idx) ==
    /\ idx + 2 < Len(toks)
    /\ TypeAt(toks, idx + 1) = "INTEGER"
    /\ TypeAt(toks, idx + 2) = "KEYWORD"
    /\ TokenAt(toks, idx + 2).value = "R"

IsIndirectReferenceStart(toks, idx) ==
    /\ idx + 2 < Len(toks)
    /\ TypeAt(toks, idx + 1) = "INTEGER"
    /\ TypeAt(toks, idx + 2) = "INDIRECT_REFERENCE"

RECURSIVE parseNextObject(_, _)
RECURSIVE parseArray(_, _, _)
RECURSIVE parseDictionary(_, _, _)
RECURSIVE parseIndirectObject(_, _)

parseIndirectReference(toks, ps) ==
    LET objectNumber == ParseInt10(TokenAt(toks, ps.idx).value)
        generationNumber == ParseInt10(TokenAt(toks, ps.idx + 1).value)
    IN Parsed(Advance(ps, 3), Ref(<<objectNumber, generationNumber>>))

parseStream(toks, ps, dictionary) ==
    Parsed(Advance(ps, 1), StreamOf(dictionary, TokenAt(toks, ps.idx).value))

parseNextObject(toks, ps) ==
    IF ps.idx >= Len(toks) THEN Parsed(ps, Null)
    ELSE LET token == TokenAt(toks, ps.idx) IN
         IF token.type \in {"BOOLEAN", "REAL", "STRING", "HEX_STRING", "NULL"}
             THEN Parsed(Advance(ps, 1), Primitive(token))
         ELSE IF token.type = "NAME"
             THEN Parsed(Advance(ps, 1), Str("/" \o token.value))
         ELSE IF token.type = "ARRAY_START"
             THEN parseArray(toks, Advance(ps, 1), <<>>)
         ELSE IF token.type = "DICT_START"
             THEN parseDictionary(toks, Advance(ps, 1), <<>>)
         ELSE IF token.type = "INTEGER"
             THEN IF IsIndirectObjectStart(toks, ps.idx)
                      THEN parseIndirectObject(toks, Logged(ps, ps.idx, "object"))
                  ELSE IF IsIndirectReferenceStart(toks, ps.idx)
                      THEN parseIndirectReference(toks, Logged(ps, ps.idx, "reference"))
                  ELSE Parsed(Advance(Logged(ps, ps.idx, "integer"), 1),
                              Num(ParseInt10(token.value)))
         ELSE Failed(ps, "Unexpected token in object value")

\* the loop of parseArray, entered past the `[`
parseArray(toks, ps, array) ==
    IF ps.idx < Len(toks) /\ TypeAt(toks, ps.idx) # "ARRAY_END"
    THEN LET r == parseNextObject(toks, ps) IN
         IF ~r.ok THEN r
         ELSE parseArray(toks, r.ps, Append(array, r.value))
    ELSE Parsed(IF ps.idx < Len(toks) THEN Advance(ps, 1) ELSE ps, ArrayOf(array))

\* the loop of parseDictionary, entered past the `<<`
parseDictionary(toks, ps, dictionary) ==
    IF ps.idx < Len(toks) /\ TypeAt(toks, ps.idx) # "DICT_END"
    THEN IF TypeAt(toks, ps.idx) # "NAME"
         THEN parseDictionary(toks, Advance(ps, 1), dictionary)
         ELSE LET key == TokenAt(toks, ps.idx).value
                  ps1 == Advance(ps, 1)
              IN IF ps1.idx < Len(toks)
                 THEN LET r == parseNextObject(toks, ps1) IN
                      IF ~r.ok THEN r
                      ELSE parseDictionary(toks, r.ps, DictSet(dictionary, key, r.value))
                 ELSE parseDictionary(toks, ps1, dictionary)
    ELSE LET ps1 == IF ps.idx < Len(toks) THEN Advance(ps, 1) ELSE ps IN
         IF ps1.idx < Len(toks) /\ TypeAt(toks, ps1.idx) = "STREAM"
         THEN parseStream(toks, ps1, MapOf(dictionary))
         ELSE Parsed(ps1, MapOf(dictionary))

parseIndirectObject(toks, ps) ==
    LET objectNumber == ParseInt10(TokenAt(toks, ps.idx).value)
        generationNumber == ParseInt10(TokenAt(toks, ps.idx + 1).value)
        r == parseNextObject(toks, Advance(ps, 3))
    IN IF ~r.ok THEN r
       ELSE LET ps1 == IF r.ps.idx < Len(toks) /\ TypeAt(toks, r.ps.idx) = "OBJ_END"
                       THEN Advance(r.ps, 1) ELSE r.ps
            IN Parsed([ps1 EXCEPT !.map = TableSet(@, MapKey(objectNumber, generationNumber),
                                                   r.value)],
                      IndObj(objectNumber, generationNumber, r.value))

RECURSIVE parseBody(_, _, _)

\* parseBody: objects are parsed and pushed until the `xref` keyword or the end
parseBody(toks, ps, objs) ==
    IF ps.idx < Len(toks)
       /\ ~(TypeAt(toks, ps.idx) = "KEYWORD" /\ TokenAt(toks, ps.idx).value = "xref")
    THEN LET r == parseNextObject(toks, ps) IN
         IF ~r.ok THEN [r EXCEPT !.value = objs]
         ELSE parseBody(toks, r.ps,
                        IF r.value = Null THEN objs ELSE Append(objs, r.value))
    ELSE Parsed(ps, objs)

XRefEntry(offset, generationNumber, inUse) ==
    [offset |-> offset, generationNumber |-> generationNumber, inUse |-> inUse]

\* an assignment to this.xrefTable[objectId] that leaves an entry already there alone
XRefSet_KeepFirst(xref, objectId, entry) ==
    IF objectId \in DOMAIN xref THEN xref
    ELSE [k \in DOMAIN xref \cup {objectId} |-> IF k = objectId THEN entry ELSE xref[k]]

\* this.xrefTable[objectId] = {offset, generationNumber, inUse}
XRefSet(xref, objectId, entry) ==
    [k \in DOMAIN xref \cup {objectId} |-> IF k = objectId THEN entry ELSE xref[k]]

IsType(toks, idx, type) == idx < Len(toks) /\ TypeAt(toks, idx) = type

\* the parser state after n calls of nextToken(), which stops advancing at the end
Taken(toks, ps, n) ==
    [ps EXCEPT !.idx = IF @ + n <= Len(toks) THEN @ + n ELSE Len(toks)]

RECURSIVE parseXRefEntries(_, _, _, _, _, _)

\* the for loop over one subsection: i entries read so far; the value of the
\* result is this.xrefTable as the loop leaves it, on an error too
parseXRefEntries(toks, ps, xref, startObjectId, count, i) ==
    IF i >= count THEN Parsed(ps, xref)
    ELSE IF ~IsType(toks, ps.idx, "INTEGER")
        THEN [Failed(Taken(toks, ps, 1), "Expected offset in xref entry")
                 EXCEPT !.value = xref]
    ELSE IF ~IsType(toks, ps.idx + 1, "INTEGER")
        THEN [Failed(Taken(toks, ps, 2), "Expected generation number in xref entry")
                 EXCEPT !.value = xref]
    ELSE IF ~IsType(toks, ps.idx + 2, "KEYWORD")
        THEN [Failed(Taken(toks, ps, 3), "Expected in-use flag in xref entry")
                 EXCEPT !.value = xref]
    ELSE LET objectId == startObjectId + i
             entry == XRefEntry(TokenAt(toks, ps.idx).value,
                                TokenAt(toks, ps.idx + 1).value,
                                TokenAt(toks, ps.idx + 2).value = "n")
         IN parseXRefEntries(toks, Advance(ps, 3), XRefSet(xref, objectId, entry),
                             startObjectId, count, i + 1)

RECURSIVE parseXRefTable(_, _, _)

\* parseXRefTable: subsections until a token that is not an INTEGER
parseXRefTable(toks, ps, xref) ==
    IF ps.idx >= Len(toks) THEN Parsed(ps, xref)
    ELSE IF TypeAt(toks, ps.idx) # "INTEGER" THEN Parsed(ps, xref)
    ELSE IF ~IsType(toks, ps.idx + 1, "INTEGER")
        THEN [Failed(Taken(toks, ps, 2), "Expected count in xref subsection")
                 EXCEPT !.value = xref]
    ELSE LET r == parseXRefEntries(toks, Advance(ps, 2), xref,
                                   TokenAt(toks, ps.idx).value,
                                   TokenAt(toks, ps.idx + 1).value, 0)
         IN IF ~r.ok THEN r ELSE parseXRefTable(toks, r.ps, r.value)

IsKeyword(toks, idx, word) ==
    /\ IsType(toks, idx, "KEYWORD")
    /\ TokenAt(toks, idx).value = word

\* the record built by parseTrailer from the trailer dictionary
TrailerDictionary(parsedDictionary) ==
    LET info == DictGet(parsedDictionary.entries, "Info") IN
    [Size |-> DictGet(parsedDictionary.entries, "Size"),
     Root |-> DictGet(parsedDictionary.entries, "Root"),
     Info |-> info,
     ID |-> DictGet(parsedDictionary.entries, "ID"),
     Encrypt |-> DictGet(parsedDictionary.entries, "Encrypt"),
     Prev |-> DictGet(parsedDictionary.entries, "Prev"),
     parsedDictionary |-> parsedDictionary]

\* parseTrailer; the value of the result is the new this.trailer, set before the
\* startxref checks
parseTrailer(toks, ps, dict) ==
    IF ~IsKeyword(toks, ps.idx, "trailer")
        THEN [Failed(Taken(toks, ps, 1), "Expected trailer keyword")
                 EXCEPT !.value = dict]
    ELSE IF ~IsType(toks, ps.idx + 1, "DICT_START")
        THEN [Failed(Taken(toks, ps, 2), "Expected dictionary start after trailer keyword")
                 EXCEPT !.value = dict]
    ELSE LET r == parseDictionary(toks, Advance(ps, 2), <<>>) IN
         IF ~r.ok THEN [r EXCEPT !.value = dict]
         ELSE IF getPDFObjectType(r.value) = "stream"
             THEN [Failed(r.ps, "TypeError: parsedDictionary.get is not a function")
                      EXCEPT !.value = dict]
         ELSE LET new == TrailerDictionary(r.value) IN
              IF ~IsKeyword(toks, r.ps.idx, "startxref")
                  THEN [Failed(Taken(toks, r.ps, 1), "Expected startxref keyword")
                           EXCEPT !.value = new]
              ELSE IF ~IsType(toks, r.ps.idx + 1, "INTEGER")
                  THEN [Failed(Taken(toks, r.ps, 2), "Expected integer after startxref")
                           EXCEPT !.value = new]
              ELSE Parsed(Advance(r.ps, 2), new)

\* /%PDF-(\d+\.\d+)/ on the header text: the version when the header has one,
\* the whole header text otherwise
HeaderVersion(headerValue) ==
    IF headerValue = "%PDF-1.7" THEN "1.7"
    ELSE IF headerValue = "%PDF-1.4" THEN "1.4"
    ELSE headerValue

---------------------------------------------------------------------------
(* PDFTokenizer: nextToken() over this.buffer, positions counted from 0 *)

\* this.buffer[i]
ByteAt(buf, i) == buf[i + 1]

\* this.buffer.slice(from, to)
Slice(buf, from, to) == SubSeq(buf, from + 1, to)

isEOF(buf, pos) == pos >= Len(buf)

isWhitespace(byte) == byte \in {0, 9, 10, 12, 13, 32}

isEOL(byte) == byte \in {13, 10}

isDelimiter(byte) == byte \in {40, 41, 60, 62, 91, 93, 123, 125, 47, 37}

isOctalDigit(byte) == byte >= 48 /\ byte <= 55

isHexDigit(byte) ==
    \/ byte >= 48 /\ byte <= 57
    \/ byte >= 65 /\ byte <= 70
    \/ byte >= 97 /\ byte <= 102

isDigit(byte) == byte >= 48 /\ byte <= 57

\* the texts the tokenizer compares with, as bytes
PdfHeader == <<37, 80, 68, 70, 45>>                              \* %PDF-
EndStream == <<101, 110, 100, 115, 116, 114, 101, 97, 109>>      \* endstream
StreamWord == <<115, 116, 114, 101, 97, 109>>                    \* stream
ObjWord == <<111, 98, 106>>                                      \* obj
EndObjWord == <<101, 110, 100, 111, 98, 106>>                    \* endobj
TrueWord == <<116, 114, 117, 101>>                               \* true
FalseWord == <<102, 97, 108, 115, 101>>                          \* false
NullWord == <<110, 117, 108, 108>>                               \* null
RWord == <<82>>                                                  \* R

\* what a tokenizer method hands back: the new this.position and the token,
\* or the Error it threw (at is the offset its message reports, -1 if none)
Lexed(pos, token) == [pos |-> pos, ok |-> TRUE, token |-> token, err |-> "", at |-> -1]

LexFailed(pos, err, at) ==
    [pos |-> pos, ok |-> FALSE, token |-> Token("none", <<>>), err |-> err, at |-> at]

\* Buffer.indexOf(word, from): the first offset from `from` on where word
\* stands, -1 if there is none
IndexOf(buf, word, from) ==
    LET hits == {i \in from .. (Len(buf) - Len(word)) :
                    \A j \in 1 .. Len(word) : ByteAt(buf, i + j - 1) = word[j]}
    IN IF hits = {} THEN -1 ELSE CHOOSE i \in hits : \A k \in hits : i <= k

\* the values a byte of the buffer can have
Bytes == 0 .. 255

\* while (!isEOF() && test(buffer[position])) position++ : the first offset
\* from pos on that is the end of the buffer or holds a byte failing the test,
\* the test given as the set of the bytes that pass it
SkipWhile(buf, pos, passing) ==
    IF isEOF(buf, pos) THEN pos
    ELSE LET stops == {i \in pos .. Len(buf) : i = Len(buf) \/ ByteAt(buf, i) \notin passing}
         IN CHOOSE i \in stops : \A k \in stops : i <= k

NotEOL(byte) == ~isEOL(byte)

InKeyword(byte) == ~isWhitespace(byte) /\ ~isDelimiter(byte)

\* the bytes over which each scanning loop of the tokenizer moves on
NotEOLBytes == {b \in Bytes : NotEOL(b)}

DigitBytes == {b \in Bytes : isDigit(b)}

WhitespaceBytes == {b \in Bytes : isWhitespace(b)}

KeywordBytes == {b \in Bytes : InKeyword(b)}

RECURSIVE skipWhitespaceAndComments(_, _)

skipWhitespaceAndComments(buf, pos) ==
    IF isEOF(buf, pos) THEN pos
    ELSE IF isWhitespace(ByteAt(buf, pos)) THEN skipWhitespaceAndComments(buf, pos + 1)
    ELSE IF ByteAt(buf, pos) = 37
        THEN LET eol == SkipWhile(buf, pos, NotEOLBytes) IN
             IF isEOF(buf, eol) THEN skipWhitespaceAndComments(buf, eol)
             ELSE IF ByteAt(buf, eol) = 13 /\ eol + 1 < Len(buf) /\ ByteAt(buf, eol + 1) = 10
                 THEN skipWhitespaceAndComments(buf, eol + 2)
             ELSE skipWhitespaceAndComments(buf, eol + 1)
    ELSE pos

\* a readHeader that takes %PDF- at the start of the buffer only
readHeader_AtStart(buf, pos) ==
    LET startPos == IF IndexOf(buf, PdfHeader, 0) = 0 THEN 0 ELSE -1 IN
    IF startPos = -1 THEN LexFailed(pos, "PDF header '%PDF-' not found", -1)
    ELSE LET endPos == SkipWhile(buf, startPos + Len(PdfHeader), NotEOLBytes) IN
         Lexed(endPos, Token("HEADER", Slice(buf, startPos, endPos)))

\* readHeader: the token it returns is itself a PDFToken of type HEADER
readHeader(buf, pos) ==
    LET startPos == IndexOf(buf, PdfHeader, 0) IN
    IF startPos = -1 THEN LexFailed(pos, "PDF header '%PDF-' not found", -1)
    ELSE LET endPos == SkipWhile(buf, startPos + Len(PdfHeader), NotEOLBytes) IN
         Lexed(endPos, Token("HEADER", Slice(buf, startPos, endPos)))

RECURSIVE DecimalValue(_)

\* the number a run of decimal digits stands for
DecimalValue(digits) ==
    IF digits = <<>> THEN 0
    ELSE 10 * DecimalValue(SubSeq(digits, 1, Len(digits) - 1)) + (digits[Len(digits)] - 48)

NaN == [js |-> "number", nan |-> TRUE]

\* parseInt(numberStr, 10) on an optional sign and a run of digits: NaN when
\* there is no digit
ParseIntText(text) ==
    LET signed == text # <<>> /\ text[1] \in {43, 45}
        digits == IF signed THEN Tail(text) ELSE text
    IN IF digits = <<>> THEN NaN
       ELSE IF signed /\ text[1] = 45 THEN 0 - DecimalValue(digits)
       ELSE DecimalValue(digits)

RECURSIVE StripZeros(_)

StripZeros(digits) ==
    IF digits # <<>> /\ digits[Len(digits)] = 48
    THEN StripZeros(SubSeq(digits, 1, Len(digits) - 1))
    ELSE digits

\* parseFloat(numberStr) on sign, digits, point, digits: the whole part and the
\* digits of the fraction that count; NaN when there is no digit at all
ParseFloatText(whole, fraction) ==
    LET signed == whole # <<>> /\ whole[1] \in {43, 45}
        digits == IF signed THEN Tail(whole) ELSE whole
    IN IF digits = <<>> /\ fraction = <<>> THEN NaN
       ELSE [js |-> "number",
             negative |-> signed /\ whole[1] = 45,
             whole |-> DecimalValue(digits),
             fraction |-> StripZeros(fraction)]

readNumber(buf, pos) ==
    LET startPos == pos
        pos1 == IF ByteAt(buf, pos) \in {43, 45} THEN pos + 1 ELSE pos
        pos2 == SkipWhile(buf, pos1, DigitBytes)
        isReal == ~isEOF(buf, pos2) /\ ByteAt(buf, pos2) = 46
        pos3 == IF isReal THEN SkipWhile(buf, pos2 + 1, DigitBytes) ELSE pos2
    IN IF isReal
       THEN Lexed(pos3, Token("REAL", ParseFloatText(Slice(buf, startPos, pos2),
                                                     Slice(buf, pos2 + 1, pos3))))
       ELSE Lexed(pos3, Token("INTEGER", ParseIntText(Slice(buf, startPos, pos3))))

\* the value of a hex digit; parseInt(.., 16) reads digits as far as they go
HexValue(byte) ==
    IF byte >= 48 /\ byte <= 57 THEN byte - 48
    ELSE IF byte >= 65 /\ byte <= 70 THEN byte - 55
    ELSE byte - 87

\* String.fromCharCode(parseInt(two characters, 16)): NaN gives the character 0
HexPair(a, b) ==
    IF ~isHexDigit(a) THEN 0
    ELSE IF ~isHexDigit(b) THEN HexValue(a)
    ELSE 16 * HexValue(a) + HexValue(b)

RECURSIVE NameEnd(_, _)

\* the scanning loop of readName
NameEnd(buf, pos) ==
    IF ~isEOF(buf, pos) /\ ~isDelimiter(ByteAt(buf, pos)) /\ ~isWhitespace(ByteAt(buf, pos))
    THEN IF /\ ByteAt(buf, pos) = 35
            /\ pos + 2 < Len(buf)
            /\ isHexDigit(ByteAt(buf, pos + 1))
            /\ isHexDigit(ByteAt(buf, pos + 2))
         THEN NameEnd(buf, pos + 3)
         ELSE NameEnd(buf, pos + 1)
    ELSE pos

RECURSIVE DecodeName(_, _)

\* the decoding loop of readName over rawName, from index i (counted from 0)
DecodeName(rawName, i) ==
    IF i >= Len(rawName) THEN <<>>
    ELSE IF rawName[i + 1] = 35 /\ i + 2 < Len(rawName)
        THEN <<HexPair(rawName[i + 2], rawName[i + 3])>> \o DecodeName(rawName, i + 3)
    ELSE <<rawName[i + 1]>> \o DecodeName(rawName, i + 1)

readName(buf, pos) ==
    LET startPos == pos + 1
        endPos == NameEnd(buf, startPos)
    IN Lexed(endPos, Token("NAME", DecodeName(Slice(buf, startPos, endPos), 0)))

\* an escaped parenthesis that is counted like a bare one
Escaped_Counted(depth, result, char) ==
    [depth |-> IF char = 40 THEN depth + 1 ELSE IF char = 41 THEN depth - 1 ELSE depth,
     result |-> Append(result, char)]

\* result += the character of a one-letter escape; depth is left as it is
Escaped(depth, result, char) == [depth |-> depth, result |-> Append(result, char)]

\* parseInt(octal, 8)
RECURSIVE OctalValue(_)

OctalValue(digits) ==
    IF digits = <<>> THEN 0
    ELSE 8 * OctalValue(SubSeq(digits, 1, Len(digits) - 1)) + (digits[Len(digits)] - 48)

RECURSIVE LiteralLoop(_, _, _, _)

\* the while loop of readLiteralString
LiteralLoop(buf, pos, depth, result) ==
    IF isEOF(buf, pos) \/ depth <= 0 THEN Lexed(pos, Token("STRING", result))
    ELSE LET currentByte == ByteAt(buf, pos)
             pos1 == pos + 1
         IN
         IF currentByte = 40 THEN LiteralLoop(buf, pos1, depth + 1, Append(result, 40))
         ELSE IF currentByte = 41
             THEN LiteralLoop(buf, pos1, depth - 1,
                              IF depth - 1 > 0 THEN Append(result, 41) ELSE result)
         ELSE IF currentByte # 92
             THEN LiteralLoop(buf, pos1, depth, Append(result, currentByte))
         ELSE IF isEOF(buf, pos1) THEN Lexed(pos1, Token("STRING", result))
         ELSE LET nextByte == ByteAt(buf, pos1)
                  pos2 == pos1 + 1
                  letters == (110 :> 10) @@ (114 :> 13) @@ (116 :> 9) @@ (98 :> 8)
                                 @@ (102 :> 12) @@ (40 :> 40) @@ (41 :> 41) @@ (92 :> 92)
              IN
              IF nextByte \in DOMAIN letters
                  THEN LET e == Escaped(depth, result, letters[nextByte]) IN
                       LiteralLoop(buf, pos2, e.depth, e.result)
              ELSE IF nextByte = 13
                  THEN LiteralLoop(buf,
                                   IF ~isEOF(buf, pos2) /\ ByteAt(buf, pos2) = 10
                                   THEN pos2 + 1 ELSE pos2,
                                   depth, result)
              ELSE IF nextByte = 10 THEN LiteralLoop(buf, pos2, depth, result)
              ELSE IF isOctalDigit(nextByte)
                  THEN LET more1 == ~isEOF(buf, pos2) /\ isOctalDigit(ByteAt(buf, pos2))
                           more2 == /\ more1
                                    /\ ~isEOF(buf, pos2 + 1)
                                    /\ isOctalDigit(ByteAt(buf, pos2 + 1))
                           pos3 == IF more2 THEN pos2 + 2 ELSE IF more1 THEN pos2 + 1 ELSE pos2
                       IN LiteralLoop(buf, pos3, depth,
                                      Append(result, OctalValue(Slice(buf, pos1, pos3))))
              ELSE LiteralLoop(buf, pos2, depth, Append(result, nextByte))

readLiteralString(buf, pos) == LiteralLoop(buf, pos + 1, 1, <<>>)

RECURSIVE HexLoop(_, _, _)

\* the while loop of readHexString: the position it stops at and the
\* characters it has collected
HexLoop(buf, pos, hexString) ==
    IF ~isEOF(buf, pos) /\ ByteAt(buf, pos) # 62
    THEN HexLoop(buf, pos + 1,
                 IF isWhitespace(ByteAt(buf, pos)) THEN hexString
                 ELSE Append(hexString, ByteAt(buf, pos)))
    ELSE [pos |-> pos, hexString |-> hexString]

readHexString(buf, pos) ==
    LET loop == HexLoop(buf, pos + 1, <<>>)
        pos1 == IF ~isEOF(buf, loop.pos) THEN loop.pos + 1 ELSE loop.pos
        hexString == IF Len(loop.hexString) % 2 = 1 THEN Append(loop.hexString, 48)
                     ELSE loop.hexString
    IN Lexed(pos1, Token("HEX_STRING",
                         [i \in 1 .. (Len(hexString) \div 2) |->
                             HexPair(hexString[2 * i - 1], hexString[2 * i])]))

\* readStream, entered with the position past the word stream
readStream(buf, pos) ==
    LET streamStart == SkipWhile(buf, pos, WhitespaceBytes)
        endStreamPos == IndexOf(buf, EndStream, streamStart)
    IN IF endStreamPos = -1
       THEN LexFailed(streamStart, "Malformed PDF: Missing 'endstream' keyword", -1)
       ELSE Lexed(endStreamPos + 9, Token("STREAM", Slice(buf, streamStart, endStreamPos)))

readKeywordOrReference(buf, pos) ==
    LET endPos == SkipWhile(buf, pos, KeywordBytes)
        keyword == Slice(buf, pos, endPos)
    IN IF keyword = TrueWord THEN Lexed(endPos, Token("BOOLEAN", TRUE))
       ELSE IF keyword = FalseWord THEN Lexed(endPos, Token("BOOLEAN", FALSE))
       ELSE IF keyword = NullWord THEN Lexed(endPos, Token("NULL", Null))
       ELSE IF keyword = StreamWord THEN readStream(buf, endPos)
       ELSE IF keyword = ObjWord THEN Lexed(endPos, Token("OBJ_START", ObjWord))
       ELSE IF keyword = EndObjWord THEN Lexed(endPos, Token("OBJ_END", EndObjWord))
       ELSE IF keyword = RWord THEN Lexed(endPos, Token("INDIRECT_REFERENCE", RWord))
       ELSE Lexed(endPos, Token("KEYWORD", keyword))

\* nextToken after the header check: whitespace and comments are skipped and the
\* byte at the position decides
TokenAfterWhitespace(buf, pos) ==
    IF isEOF(buf, pos) THEN Lexed(pos, EofTok)
    ELSE LET currentByte == ByteAt(buf, pos) IN
         IF isDigit(currentByte) \/ currentByte \in {43, 45} THEN readNumber(buf, pos)
         ELSE IF currentByte = 47 THEN readName(buf, pos)
         ELSE IF currentByte = 40 THEN readLiteralString(buf, pos)
         ELSE IF currentByte = 60
             THEN IF pos + 1 < Len(buf) /\ ByteAt(buf, pos + 1) = 60
                  THEN Lexed(pos + 2, Token("DICT_START", <<60, 60>>))
                  ELSE readHexString(buf, pos)
         ELSE IF currentByte = 62
             THEN IF pos + 1 < Len(buf) /\ ByteAt(buf, pos + 1) = 62
                  THEN Lexed(pos + 2, Token("DICT_END", <<62, 62>>))
                  ELSE LexFailed(pos, "Invalid character '>' at position", pos)
         ELSE IF currentByte = 91 THEN Lexed(pos + 1, Token("ARRAY_START", <<91>>))
         ELSE IF currentByte = 93 THEN Lexed(pos + 1, Token("ARRAY_END", <<93>>))
         ELSE readKeywordOrReference(buf, pos)

nextToken(buf, pos) ==
    IF pos = 0
    THEN LET header == readHeader(buf, pos) IN
         IF ~header.ok THEN header ELSE Lexed(header.pos, Token("HEADER", header.token))
    ELSE TokenAfterWhitespace(buf, skipWhitespaceAndComments(buf, pos))

RECURSIVE getAllTokens(_, _, _)

\* FileStructureParser.getAllTokens on a new tokenizer: tokens are pushed up to
\* the EOF token; an Error of nextToken ends the constructor, and a token that
\* is not EOF and leaves the position where it was is returned for ever
getAllTokens(buf, pos, toks) ==
    LET r == nextToken(buf, pos) IN
    IF ~r.ok THEN [outcome |-> "failed", tokens |-> toks, err |-> r.err]
    ELSE IF r.token.type = "EOF"
        THEN [outcome |-> "constructed", tokens |-> Append(toks, r.token), err |-> ""]
    ELSE IF r.pos = pos
        THEN [outcome |-> "looping", tokens |-> Append(toks, r.token), err |-> ""]
    ELSE getAllTokens(buf, r.pos, Append(toks, r.token))

---------------------------------------------------------------------------
(* PDFPage: the constructor and the getters *)

Bool(b) == [js |-> "boolean", v |-> b]

IsNumber(value) == value.js = "number" /\ "v" \in DOMAIN value

\* !value
Falsy(value) ==
    \/ value.js \in {"undefined", "null"}
    \/ value.js = "number" /\ (~IsNumber(value) \/ value.v = 0)
    \/ value.js = "boolean" /\ ~value.v
    \/ value.js = "string" /\ value.v = ""

\* a || b
OrElse(a, b) == IF Falsy(a) THEN b ELSE a

\* a ?? b
Coalesce(a, b) == IF a.js \in {"undefined", "null"} THEN b ELSE a

\* a - b, a * b, a > b and a % b on numbers; undefined makes the result NaN
Minus(a, b) == IF IsNumber(a) /\ IsNumber(b) THEN Num(a.v - b.v) ELSE NaN

Times(a, b) == IF IsNumber(a) /\ IsNumber(b) THEN Num(a.v * b.v) ELSE NaN

Greater(a, b) == IsNumber(a) /\ IsNumber(b) /\ a.v > b.v

\* the remainder takes the sign of the dividend
Remainder(a, b) ==
    IF ~(IsNumber(a) /\ IsNumber(b)) \/ b.v = 0 THEN NaN
    ELSE LET m == IF b.v < 0 THEN 0 - b.v ELSE b.v IN
         IF a.v < 0 THEN Num(0 - ((0 - a.v) % m)) ELSE Num(a.v % m)

\* array[i], the index counted from 0
ItemAt(array, i) ==
    IF array.js = "array" /\ i < Len(array.items) THEN array.items[i + 1] ELSE Undefined

\* what a method of the page hands back: its value, or the error it threw
Returned(value) == [ok |-> TRUE, err |-> "", value |-> value]

Thrown(err) == [ok |-> FALSE, err |-> err, value |-> Undefined]

\* console.assert reports and goes on, so a box of another length is copied too
resolveBox(dict, boxName, resolver) ==
    LET boxRef == DictGet(dict.entries, boxName) IN
    IF Falsy(boxRef) THEN Undefined
    ELSE ArrayOf(<<ItemAt(boxRef, 0), ItemAt(boxRef, 1), ItemAt(boxRef, 2),
                   ItemAt(boxRef, 3)>>)

\* a value whose objectNumber and generationNumber the resolver can read
HasObjectNumber(value) ==
    /\ value.js = "object"
    /\ "objectNumber" \in DOMAIN value
    /\ "generationNumber" \in DOMAIN value

\* resolver.resolveIndirectReference(value, isDeepResolve) on whatever the
\* dictionary held: undefined has no objectNumber to read (TypeError), any other
\* value without the two numbers makes the key "undefined undefined"
resolveValue(st, value, isDeepResolve) ==
    IF value.js \in {"undefined", "null"} THEN Throw(st, "TypeError", <<0, 0>>)
    ELSE IF ~HasObjectNumber(value) THEN Throw(Consult(st), "unknown", <<0, 0>>)
    ELSE resolveIndirectReference(st, value, isDeepResolve, TRUE, 1)

\* dictionary.get(key) ?? null, on a value that has to be a Map
Slot(resourcesDict, key) == Coalesce(DictGet(resourcesDict.entries, key), Null)

PDFResources(resourcesDict) ==
    [js |-> "object",
     Font |-> Slot(resourcesDict, "Font"),
     XObject |-> Slot(resourcesDict, "XObject"),
     ExtGState |-> Slot(resourcesDict, "ExtGState"),
     ColorSpace |-> Slot(resourcesDict, "ColorSpace"),
     Pattern |-> Slot(resourcesDict, "Pattern"),
     Shading |-> Slot(resourcesDict, "Shading"),
     ProcSet |-> Slot(resourcesDict, "ProcSet"),
     Properties |-> Slot(resourcesDict, "Properties")]

\* the /Resources reference held by the dictionary or, failing that, by the
\* dictionary of its parent
ResourcesRef(st, dict, parent) ==
    LET own == DictGet(dict.entries, "Resources")
        FromParent(after, parentDict) ==
            IF Falsy(parentDict) THEN Return(after, own)
            ELSE IF parentDict.js # "map" THEN Throw(after, "TypeError", <<0, 0>>)
            ELSE Return(after, DictGet(parentDict.entries, "Resources"))
        Inherited(p) ==
            IF p.outcome # "ok" THEN p ELSE FromParent(p.st, ValueField(p.st.map, p.value))
    IN IF ~Falsy(own) \/ Falsy(parent) THEN Return(st, own)
       ELSE Inherited(resolveValue(st, parent, FALSE))

resolveResources(st, dict, parent) ==
    LET Named(after, resourcesDict) ==
            IF resourcesDict.js # "map" THEN Throw(after, "TypeError", <<0, 0>>)
            ELSE Return(after, PDFResources(resourcesDict))
        Resolved(r) ==
            IF r.outcome # "ok" THEN r ELSE Named(r.st, ValueField(r.st.map, r.value))
        Referred(ref) ==
            IF ref.outcome # "ok" THEN ref ELSE Resolved(resolveValue(ref.st, ref.value, TRUE))
    IN Referred(ResourcesRef(st, dict, parent))

\* no PDFPage: the state before the constructor ran and after it threw
NoPage(built) ==
    [built |-> built, objectRef |-> Undefined, rawDict |-> Undefined,
     mediaBox |-> Undefined, cropBox |-> Undefined, bleedBox |-> Undefined,
     trimBox |-> Undefined, artBox |-> Undefined, parent |-> Undefined,
     resources |-> Undefined, contents |-> Undefined, annots |-> Undefined,
     rotate |-> Undefined, userUnit |-> Undefined]

\* (dict.get('Rotate') as number) || 0
Rotate(dict) == OrElse(DictGet(dict.entries, "Rotate"), Num(0))

\* new PDFPage(objectRef, dict, resolver): the resolver's state after the call
\* and the page, or the error that left no page
PDFPage(st, objectRef, dict) ==
    LET mediaBox == resolveBox(dict, "MediaBox", st)
        parent == DictGet(dict.entries, "Parent")
        Made(r) ==
       [st |-> r.st,
        page |-> IF r.outcome # "ok" THEN NoPage(r.outcome)
                 ELSE [built |-> "ok",
                       objectRef |-> objectRef,
                       rawDict |-> dict,
                       mediaBox |-> mediaBox,
                       cropBox |-> OrElse(resolveBox(dict, "CropBox", st), mediaBox),
                       bleedBox |-> resolveBox(dict, "BleedBox", st),
                       trimBox |-> resolveBox(dict, "TrimBox", st),
                       artBox |-> resolveBox(dict, "ArtBox", st),
                       parent |-> parent,
                       resources |-> r.value,
                       contents |-> DictGet(dict.entries, "Contents"),
                       annots |-> DictGet(dict.entries, "Annots"),
                       rotate |-> Rotate(dict),
                       userUnit |-> OrElse(DictGet(dict.entries, "UserUnit"), Num(1))]]
    IN Made(resolveResources(st, dict, parent))

\* getWidth() that measures the media box
getWidth_MediaBox(p) ==
    IF p.mediaBox.js # "array" THEN Thrown("TypeError")
    ELSE Returned(Times(Minus(ItemAt(p.mediaBox, 2), ItemAt(p.mediaBox, 0)), p.userUnit))

\* reading an index of this.cropBox when it is undefined is a TypeError
getWidth(p) ==
    IF p.cropBox.js # "array" THEN Thrown("TypeError")
    ELSE Returned(Times(Minus(ItemAt(p.cropBox, 2), ItemAt(p.cropBox, 0)), p.userUnit))

getHeight(p) ==
    IF p.cropBox.js # "array" THEN Thrown("TypeError")
    ELSE Returned(Times(Minus(ItemAt(p.cropBox, 3), ItemAt(p.cropBox, 1)), p.userUnit))

getRotation(p) == Returned(p.rotate)

\* isLandscape() that compares width and height whatever the rotation
isLandscape_Unrotated(p) ==
    LET width == getWidth(p)
        height == getHeight(p)
    IN IF ~width.ok THEN width
       ELSE Returned(Bool(Greater(width.value, height.value)))

isLandscape(p) ==
    LET effectiveRotation == Remainder(p.rotate, Num(180))
        width == getWidth(p)
        height == getHeight(p)
    IN IF ~width.ok THEN width
       ELSE IF IsNumber(effectiveRotation) /\ effectiveRotation.v = 0
           THEN Returned(Bool(Greater(width.value, height.value)))
       ELSE Returned(Bool(Greater(height.value, width.value)))

---------------------------------------------------------------------------
(* Page trees: a leaf page, its chain of /Pages ancestors, and what they hold *)

MaxAncestors == 2  \* /Pages nodes above the leaf on its Parent chain

MaxTasks == 2      \* render() and getTextContent() calls in flight at a time

\* node i of the chain is object i: 1 is the leaf, i + 1 the parent of i
PageKey(i) == <<i, 0>>

\* the resources dictionary that node i refers to when it has /Resources
ResourcesKey(i) == <<MaxAncestors + 1 + i, 0>>

FontKey == <<2 * MaxAncestors + 3, 0>>

ContentsKey == <<2 * MaxAncestors + 4, 0>>

FontNames == <<"F0", "F1", "F2", "F3", "F4", "F5">>

\* the box node i declares when it declares one: each level has a width of its own
BoxAt(i) == ArrayOf(<<Num(0), Num(0), Num(611 + i), Num(792)>>)

Wide == ArrayOf(<<Num(0), Num(0), Num(792), Num(612)>>)

Crop == ArrayOf(<<Num(50), Num(50), Num(562), Num(742)>>)

\* what a node declares: each attribute is its value, or undefined when absent
Node(mediaBox, cropBox, resources, rotate, userUnit) ==
    [MediaBox |-> mediaBox, CropBox |-> cropBox, Resources |-> resources,
     Rotate |-> rotate, UserUnit |-> userUnit]

TreeKinds == {"boxes", "resources", "rotate"}

\* the nodes a tree of each family can have at place i of the chain
Level(kind, i) ==
    IF kind = "boxes"
    THEN IF i = 1
         THEN {Node(m, c, Ref(ResourcesKey(1)), r, u) :
                   m \in {Undefined, BoxAt(1)}, c \in {Undefined, Crop},
                   r \in {Undefined, Num(90)}, u \in {Undefined, Num(2)}}
         ELSE {Node(m, Undefined, Undefined, Undefined, Undefined) :
                   m \in {Undefined, BoxAt(i)}}
    ELSE IF kind = "resources"
    THEN {Node(IF i = 1 THEN BoxAt(1) ELSE Undefined, Undefined, r, Undefined, Undefined) :
              r \in {Undefined, Ref(ResourcesKey(i))}}
    ELSE IF i = 1
         THEN {Node(m, Undefined, Ref(ResourcesKey(1)), r, Undefined) :
                   m \in {BoxAt(1), Wide},
                   r \in {Undefined} \cup
                         {Num(a) : a \in {0, 90, 180, 270, 450, 0 - 90, 45}}}
         ELSE {Node(Undefined, Undefined, Undefined, r, Undefined) :
                   r \in {Undefined, Num(180)}}

RECURSIVE Chains(_, _, _)

\* the chains of nodes from place i up to place n
Chains(kind, i, n) ==
    IF i > n THEN {<<>>}
    ELSE {<<d>> \o rest : d \in Level(kind, i), rest \in Chains(kind, i + 1, n)}

\* fonts: whether the resources dictionaries have a /Font entry
Trees ==
    UNION {{[kind |-> kind, nodes |-> nodes, fonts |-> fonts] :
                nodes \in UNION {Chains(kind, 1, n + 1) : n \in 0 .. MaxAncestors},
                fonts \in IF kind = "resources" THEN BOOLEAN ELSE {TRUE}} :
           kind \in TreeKinds}

NoTree == [kind |-> "none", nodes |-> <<>>, fonts |-> FALSE]

\* the entries among those listed whose value is there
Declared(entries) == SelectSeq(entries, LAMBDA e : e.v.js # "undefined")

\* the dictionary of node i as the parser leaves it in the table
NodeDict(t, i) ==
    MapOf(Declared(<<
        Entry("Type", Str(IF i = 1 THEN "Page" ELSE "Pages")),
        Entry("Parent", IF i < Len(t.nodes) THEN Ref(PageKey(i + 1)) ELSE Undefined),
        Entry("MediaBox", t.nodes[i].MediaBox),
        Entry("CropBox", t.nodes[i].CropBox),
        Entry("Resources", t.nodes[i].Resources),
        Entry("Contents", IF i = 1 THEN Ref(ContentsKey) ELSE Undefined),
        Entry("Rotate", t.nodes[i].Rotate),
        Entry("UserUnit", t.nodes[i].UserUnit)>>))

ResourcesDict(t, i) ==
    MapOf(Declared(<<
        Entry("Font", IF t.fonts THEN MapOf(<<Entry(FontNames[i], Ref(FontKey))>>)
                      ELSE Undefined),
        Entry("ProcSet", ArrayOf(<<Str("PDF"), Str("Text")>>))>>))

\* the object table of the file that holds the tree
PageTable(t) ==
    LET places == 1 .. Len(t.nodes) IN
    [k \in {PageKey(i) : i \in places} \cup {ResourcesKey(i) : i \in places}
           \cup {FontKey, ContentsKey} |->
        IF k = FontKey THEN MapOf(<<Entry("Type", Str("Font")),
                                    Entry("BaseFont", Str("Helvetica"))>>)
        ELSE IF k = ContentsKey THEN StreamOf(MapOf(<<Entry("Length", Num(44))>>), 44)
        ELSE IF k[1] <= Len(t.nodes) THEN NodeDict(t, k[1])
        ELSE ResourcesDict(t, k[1] - MaxAncestors - 1)]

NoMeasure ==
    [called |-> FALSE, width |-> Returned(Undefined), height |-> Returned(Undefined),
     rotation |-> Returned(Undefined), landscape |-> Returned(Undefined)]

NoFresh == [cleared |-> FALSE, begun |-> {}, marked |-> "none"]

NoPageYet ==
    /\ tree = NoTree
    /\ page = NoPage("no")
    /\ measured = NoMeasure
    /\ _isContentParsed = FALSE
    /\ _parsedContent = Undefined
    /\ tasks = <<>>
    /\ fresh = NoFresh

---------------------------------------------------------------------------
(* Object tables the resolver is constructed on *)

ObjNums == 1 .. MaxObj

TableKeys == {<<n, 0>> : n \in ObjNums}

MissingKey == <<1, 1>>

RefTargets == TableKeys \cup {MissingKey}

Shapes ==
    {Num(42)}
    \cup {MapOf(<<Entry("Type", Num(7)), Entry("Parent", Ref(a))>>) : a \in RefTargets}
    \cup {StreamOf(MapOf(<<Entry("Length", Ref(<<MaxObj, 0>>))>>), 44)}
    \cup {ArrayOf(<<Ref(p[1]), Ref(p[2])>>) :
              p \in {q \in RefTargets \X RefTargets : q[1] # q[2]}}

RECURSIVE RefCount(_)
RECURSIVE RefCountSeq(_)

RefCount(v) ==
    LET type == getPDFObjectType(v) IN
    IF type = "reference" THEN 1
    ELSE IF type = "array" THEN RefCountSeq(v.items)
    ELSE IF type = "dictionary" THEN RefCountSeq([i \in 1 .. Len(v.entries) |-> v.entries[i].v])
    ELSE IF type = "stream" THEN RefCount(v.dictionary)
    ELSE IF type = "indirect-object" /\ ~IsTableObj(v) THEN RefCount(v.value)
    ELSE 0

RefCountSeq(s) == IF s = <<>> THEN 0 ELSE RefCount(Head(s)) + RefCountSeq(Tail(s))

RECURSIVE SumOver(_, _)

SumOver(map, keys) ==
    IF keys = {} THEN 0
    ELSE LET k == CHOOSE x \in keys : TRUE IN RefCount(map[k]) + SumOver(map, keys \ {k})

NoCall == [key |-> <<0, 0>>, deep |-> FALSE, silent |-> TRUE, outcome |-> "none",
           err |-> <<0, 0>>, consulted |-> FALSE, first |-> FALSE, emptyCache |-> FALSE,
           again |-> "no"]

NoSource ==
    [kind |-> "none", pre |-> <<>>, part |-> <<>>, closed |-> FALSE, tail |-> <<>>]

NoToken ==
    [called |-> FALSE, before |-> 0, start |-> 0, ok |-> TRUE,
     token |-> Token("none", <<>>), err |-> "", at |-> -1]

NoSample ==
    [kind |-> "none", bodies |-> <<>>, payload |-> <<>>, entries |-> <<>>,
     trailers |-> <<>>, xrefs |-> <<>>]

Init ==
    /\ indirectObjectsMap \in [TableKeys -> Shapes]
    /\ SumOver(indirectObjectsMap, TableKeys) <= MaxRefs
    \* objects are numbered in order of non-increasing reference count: every table
    \* is such a table up to a renumbering of its objects
    /\ \A n \in ObjNums \ {1} :
           RefCount(indirectObjectsMap[<<n, 0>>]) <= RefCount(indirectObjectsMap[<<n - 1, 0>>])
    /\ parsedMap = indirectObjectsMap
    /\ resolvedCache = {}
    /\ resolvingStack = {}
    /\ last = NoCall
    /\ NoPageYet
    /\ tokens = <<>>
    /\ currentTokenIndex = 0
    /\ objects = <<>>
    /\ xrefTable = <<>>
    /\ trailer = Null
    /\ version = ""
    /\ pc = "parsed"
    /\ error = ""
    /\ calls = <<>>
    /\ sample = NoSample
    /\ buffer = <<>>
    /\ position = 0
    /\ emitted = NoToken
    /\ source = NoSource

---------------------------------------------------------------------------
(* Operations *)

Here == ResolverState(indirectObjectsMap, resolvedCache, resolvingStack)

\* One call of the public method from outside the resolver.
Resolve(key, isDeepResolve, silent) ==
    LET r == resolveIndirectReference(Here, Ref(key), isDeepResolve, silent, 1) IN
    /\ indirectObjectsMap' = r.st.map
    /\ resolvedCache' = r.st.cache
    /\ resolvingStack' = r.st.stack
    /\ last' = [key |-> key, deep |-> isDeepResolve, silent |-> silent,
                outcome |-> r.outcome,
                err |-> r.err,
                consulted |-> r.st.consulted,
                first |-> last.outcome = "none",
                emptyCache |-> resolvedCache = {},
                again |-> IF \/ last.outcome = "none"
                             \/ <<last.key, last.deep, last.silent>>
                                    # <<key, isDeepResolve, silent>>
                          THEN "no"
                          ELSE IF last.outcome # "ok" THEN "afterError"
                          ELSE IF r.outcome = "ok" /\ indirectObjectsMap = r.st.map
                               THEN "same" ELSE "differs"]
    /\ UNCHANGED <<parsedMap, parserVars, tokenizerVars, pageVars, contentVars>>

ResolveShallow == \E key \in RefTargets, silent \in BOOLEAN : Resolve(key, FALSE, silent)

ResolveDeep == \E key \in RefTargets, silent \in BOOLEAN : Resolve(key, TRUE, silent)

Next == ResolveShallow \/ ResolveDeep

Spec == Init /\ [][Next]_vars

---------------------------------------------------------------------------
(* Token lists the parser is constructed on *)

\* the tokens that spell a value
ValueTokens(value) ==
    IF getPDFObjectType(value) = "reference"
    THEN <<IntTok(value.objectNumber), IntTok(value.generationNumber), RTok>>
    ELSE <<IntTok(value.v)>>

ObjectTokens(def) ==
    <<IntTok(def.key[1]), IntTok(def.key[2]), ObjStart>> \o ValueTokens(def.value)
        \o <<ObjEnd>>

\* the xref section of the n-th section of a file
XRefTokens(n) ==
    IF n = 1
    THEN <<Kw("xref"), IntTok(0), IntTok(3),
           IntTok(0), IntTok(65535), Kw("f"),
           IntTok(10), IntTok(0), Kw("n"),
           IntTok(74), IntTok(0), Kw("n")>>
    ELSE <<Kw("xref"), IntTok(0), IntTok(1),
           IntTok(0), IntTok(65535), Kw("f"),
           IntTok(2), IntTok(2),
           IntTok(154 + n), IntTok(1), Kw("n"),
           IntTok(210 + n), IntTok(0), Kw("n")>>

\* the trailer of the n-th section of a file
TrailerTokens(n) ==
    <<Kw("trailer"), DictStart, Name("Size"), IntTok(2 + n),
      Name("Root"), IntTok(1), IntTok(0), RTok>>
        \o (IF n = 1 THEN <<>> ELSE <<Name("Prev"), IntTok(100 + n)>>)
        \o <<DictEnd, Kw("startxref"), IntTok(120 + n)>>

RECURSIVE BodyTokens(_)

BodyTokens(defs) ==
    IF defs = <<>> THEN <<>> ELSE ObjectTokens(Head(defs)) \o BodyTokens(Tail(defs))

RECURSIVE SectionTokens(_, _)

\* the sections from the n-th on; bodies[n] is the list of objects of section n
SectionTokens(bodies, n) ==
    IF n > Len(bodies) THEN <<>>
    ELSE BodyTokens(bodies[n]) \o XRefTokens(n) \o TrailerTokens(n)
             \o SectionTokens(bodies, n + 1)

StructFile(bodies) == <<HeaderTok>> \o SectionTokens(bodies, 1) \o <<EofTok>>

\* the lexemes a sampled array is written with
Lexemes == {"0", "1", "2", "3", "R"}

\* PDFTokenizer on one lexeme: readNumber on digits, readKeywordOrReference on R
Tokenize(lexeme) ==
    IF lexeme = "R" THEN RTok
    ELSE IntTok(CHOOSE d \in 0 .. 9 : <<"0", "1", "2", "3", "4", "5", "6", "7", "8", "9">>[d + 1]
                                         = lexeme)

ValueFile(payload) ==
    <<HeaderTok, IntTok(1), IntTok(0), ObjStart, ArrayStart>>
        \o [i \in 1 .. Len(payload) |-> Tokenize(payload[i])]
        \o <<ArrayEnd, ObjEnd>> \o XRefTokens(1) \o TrailerTokens(1) \o <<EofTok>>

SeqsUpTo(S, n) == UNION {[1 .. m -> S] : m \in 0 .. n}

\* values as they are written in a sampled dictionary: 1, 2, /Catalog, [/Catalog]
WrittenInt(n) == [w |-> "int", n |-> n]

WrittenName(s) == [w |-> "name", s |-> s]

WrittenNames(s) == [w |-> "names", s |-> s]

\* PDFTokenizer on a written value: readNumber on digits, readName on /name
\* (the token holds the name without its slash)
WrittenTokens(value) ==
    IF value.w = "int" THEN <<IntTok(value.n)>>
    ELSE IF value.w = "name" THEN <<Name(value.s)>>
    ELSE <<ArrayStart, Name(value.s), ArrayEnd>>

DictEntries ==
    {[k |-> k, v |-> v] :
        k \in {"Type", "Kind"},
        v \in {WrittenInt(1), WrittenInt(2), WrittenName("Catalog"), WrittenNames("Catalog")}}

RECURSIVE EntryTokens(_)

EntryTokens(entries) ==
    IF entries = <<>> THEN <<>>
    ELSE <<Name(Head(entries).k)>> \o WrittenTokens(Head(entries).v)
             \o EntryTokens(Tail(entries))

\* a file whose one object is the dictionary << entries >>
DictFile(entries) ==
    <<HeaderTok, IntTok(1), IntTok(0), ObjStart, DictStart>> \o EntryTokens(entries)
        \o <<DictEnd, ObjEnd>> \o XRefTokens(1) \o TrailerTokens(1) \o <<EofTok>>

ObjectDefs ==
    {[key |-> k, value |-> v] : k \in {<<2, 0>>, <<2, 1>>}, v \in {Num(7), Ref(<<2, 0>>)}}

\* the objects of a file dealt out to n sections: section i holds the objects
\* after cut i - 1 up to cut i
Dealt(defs, n, cuts) ==
    [i \in 1 .. n |->
        SubSeq(defs, (IF i = 1 THEN 0 ELSE cuts[i - 1]) + 1,
                     IF i = n THEN Len(defs) ELSE cuts[i])]

Bodies ==
    UNION {{Dealt(defs, n, cuts) :
               cuts \in {c \in [1 .. (n - 1) -> 0 .. Len(defs)] :
                            \A i \in 1 .. (n - 2) : c[i] <= c[i + 1]}} :
           defs \in SeqsUpTo(ObjectDefs, MaxFileObjs), n \in 1 .. MaxSections}

Payloads == SeqsUpTo(Lexemes, MaxValueTokens)

\* the trailer of section n as it is written: Size and Root are there or left out
WrittenTrailer(n, written) ==
    <<Kw("trailer"), DictStart>>
        \o (IF written.size THEN <<Name("Size"), IntTok(2 + n)>> ELSE <<>>)
        \o (IF written.root THEN <<Name("Root"), IntTok(n), IntTok(0), RTok>> ELSE <<>>)
        \o (IF n = 1 THEN <<>> ELSE <<Name("Prev"), IntTok(100 + n)>>)
        \o <<DictEnd, Kw("startxref"), IntTok(120 + n)>>

RECURSIVE TrailerSections(_, _)

TrailerSections(trailers, n) ==
    IF n > Len(trailers) THEN <<>>
    ELSE XRefTokens(n) \o WrittenTrailer(n, trailers[n]) \o TrailerSections(trailers, n + 1)

\* a file of sections without objects, one written trailer each
TrailerFile(trailers) == <<HeaderTok>> \o TrailerSections(trailers, 1) \o <<EofTok>>

WrittenTrailers ==
    UNION {[1 .. n -> [size : BOOLEAN, root : BOOLEAN]] : n \in 1 .. MaxSections}

\* the entry written at place i of the subsection of section n
WrittenOffset(n, i) == 100 * n + i

RECURSIVE WrittenEntries(_, _, _)

WrittenEntries(n, flags, i) ==
    IF i > Len(flags) THEN <<>>
    ELSE <<IntTok(WrittenOffset(n, i)), IntTok(n - 1), Kw(flags[i])>>
             \o WrittenEntries(n, flags, i + 1)

\* the xref section of section n: one subsection, start count and the entries
WrittenXRef(n, written) ==
    <<Kw("xref"), IntTok(written.start), IntTok(Len(written.flags))>>
        \o WrittenEntries(n, written.flags, 1)

RECURSIVE XRefSections(_, _)

XRefSections(xrefs, n) ==
    IF n > Len(xrefs) THEN <<>>
    ELSE WrittenXRef(n, xrefs[n]) \o TrailerTokens(n) \o XRefSections(xrefs, n + 1)

XRefFile(xrefs) == <<HeaderTok>> \o XRefSections(xrefs, 1) \o <<EofTok>>

RECURSIVE FlagCount(_)

FlagCount(xrefs) ==
    IF xrefs = <<>> THEN 0 ELSE Len(Head(xrefs).flags) + FlagCount(Tail(xrefs))

WrittenXRefs ==
    LET subsections ==
            {[start |-> a, flags |-> f] :
                a \in 0 .. 1, f \in SeqsUpTo({"n", "f"}, MaxXRefEntries) \ {<<>>}}
    IN {x \in UNION {[1 .. n -> subsections] : n \in 1 .. MaxSections} :
           FlagCount(x) <= MaxXRefEntries}

Samples ==
    {[NoSample EXCEPT !.kind = "struct", !.bodies = b] : b \in Bodies}
    \cup {[NoSample EXCEPT !.kind = "value", !.payload = p] : p \in Payloads}
    \cup {[NoSample EXCEPT !.kind = "dict", !.entries = e] :
              e \in SeqsUpTo(DictEntries, MaxDictEntries)}
    \cup {[NoSample EXCEPT !.kind = "trailers", !.trailers = t] : t \in WrittenTrailers}
    \cup {[NoSample EXCEPT !.kind = "xrefs", !.xrefs = x] : x \in WrittenXRefs}

\* the token list of a sampled file
SampleTokens(s) ==
    IF s.kind = "struct" THEN StructFile(s.bodies)
    ELSE IF s.kind = "value" THEN ValueFile(s.payload)
    ELSE IF s.kind = "dict" THEN DictFile(s.entries)
    ELSE IF s.kind = "trailers" THEN TrailerFile(s.trailers)
    ELSE XRefFile(s.xrefs)

InitParse ==
    /\ sample \in Samples
    /\ tokens = SampleTokens(sample)
    /\ buffer = <<>>
    /\ position = 0
    /\ emitted = NoToken
    /\ source = NoSource
    /\ currentTokenIndex = 0
    /\ indirectObjectsMap = <<>>
    /\ objects = <<>>
    /\ xrefTable = <<>>
    /\ trailer = Null
    /\ version = ""
    /\ pc = "parseHeader"
    /\ error = ""
    /\ calls = <<>>
    /\ parsedMap = <<>>
    /\ resolvedCache = {}
    /\ resolvingStack = {}
    /\ last = NoCall
    /\ NoPageYet

---------------------------------------------------------------------------
(* parse(), one method call at a time *)

HereParsing == ParserState(currentTokenIndex, indirectObjectsMap, calls)

\* what a method call leaves in the fields of the descent
Leaves(r, next) ==
    /\ currentTokenIndex' = r.ps.idx
    /\ indirectObjectsMap' = r.ps.map
    /\ calls' = r.ps.log
    /\ pc' = IF r.ok THEN next ELSE "failed"
    /\ error' = r.err

ParseHeader ==
    /\ pc = "parseHeader"
    /\ IF IsType(tokens, currentTokenIndex, "HEADER")
       THEN /\ version' = HeaderVersion(TokenAt(tokens, currentTokenIndex).value)
            /\ Leaves(Parsed(Taken(tokens, HereParsing, 1), Null), "parseBody")
       ELSE /\ version' = version
            /\ Leaves(Failed(Taken(tokens, HereParsing, 1), "Invalid PDF: Header not found"),
                      "parseBody")
    /\ UNCHANGED <<objects, xrefTable, trailer, tokens, sample, resolverVars, tokenizerVars,
                   pageVars, contentVars>>

ParseBody ==
    /\ pc = "parseBody"
    /\ LET r == parseBody(tokens, HereParsing, objects) IN
       /\ objects' = r.value
       /\ Leaves(r, "parseXRefAndTrailer")
    /\ UNCHANGED <<xrefTable, trailer, version, tokens, sample, resolverVars, tokenizerVars,
                   pageVars, contentVars>>

\* parseXRefAndTrailer, and the test of the do-while loop that follows it
ParseXRefAndTrailer ==
    /\ pc = "parseXRefAndTrailer"
    /\ IF ~IsKeyword(tokens, currentTokenIndex, "xref")
       THEN /\ Leaves(Failed(Taken(tokens, HereParsing, 1), "Expected xref keyword"), "failed")
            /\ UNCHANGED <<xrefTable, trailer>>
       ELSE LET x == parseXRefTable(tokens, Advance(HereParsing, 1), xrefTable) IN
            IF ~x.ok
            THEN /\ Leaves(x, "failed")
                 /\ xrefTable' = x.value
                 /\ UNCHANGED trailer
            ELSE LET t == parseTrailer(tokens, x.ps, trailer) IN
                 /\ xrefTable' = x.value
                 /\ trailer' = t.value
                 /\ Leaves(t, IF t.ps.idx < Len(tokens) /\ TypeAt(tokens, t.ps.idx) # "EOF"
                              THEN "parseBody" ELSE "expectEOF")
    /\ UNCHANGED <<objects, version, tokens, sample, resolverVars, tokenizerVars,
                   pageVars, contentVars>>

\* the end of parse(): the EOF marker is looked for
ExpectEOF ==
    /\ pc = "expectEOF"
    /\ IF IsType(tokens, currentTokenIndex, "EOF")
       THEN Leaves(Parsed(Taken(tokens, HereParsing, 1), Null), "parsed")
       ELSE Leaves(Failed(Taken(tokens, HereParsing, 1), "Expected EOF marker"), "failed")
    /\ UNCHANGED <<objects, xrefTable, trailer, version, tokens, sample, resolverVars, tokenizerVars,
                   pageVars, contentVars>>

NextParse == ParseHeader \/ ParseBody \/ ParseXRefAndTrailer \/ ExpectEOF

SpecParse == InitParse /\ [][NextParse]_vars

---------------------------------------------------------------------------
(* Buffers the tokenizer is constructed on *)

\* %PDF-1.7 and a newline
HeaderLine == PdfHeader \o <<49, 46, 55, 10>>

\* the bytes of a(b\)c)\n) , the literal string (a(b\)c)\n) past its opening parenthesis
BalanceExample == <<97, 40, 98, 92, 41, 99, 41, 92, 110, 41>>

Sources ==
    \* a literal string: ( and bytes out of ( ) \ a n
    {[NoSource EXCEPT !.kind = "literal", !.part = p] :
        p \in SeqsUpTo({40, 41, 92, 97, 110}, MaxBytes) \cup {BalanceExample}}
    \* a literal string with octal escapes: ( and bytes out of \ 7 1 )
    \cup {[NoSource EXCEPT !.kind = "octal", !.part = p] :
             p \in SeqsUpTo({92, 55, 49, 41}, MaxBytes)}
    \* a hex string: < and bytes out of 4 1 > space
    \cup {[NoSource EXCEPT !.kind = "hex", !.part = p] :
             p \in SeqsUpTo({52, 49, 62, 32}, MaxBytes - 1)}
    \* delimiters where a token is to start: bytes out of ) { } > a space
    \cup {[NoSource EXCEPT !.kind = "delimiters", !.part = p] :
             p \in SeqsUpTo({41, 123, 125, 62, 97, 32}, MaxBytes - 2)}
    \* a stream: stream, LF or CR LF, a payload out of NUL space LF x, endstream
    \* or not, and what follows
    \cup {[kind |-> "stream", pre |-> e, part |-> p, closed |-> c, tail |-> t] :
             e \in {<<10>>, <<13, 10>>},
             p \in SeqsUpTo({0, 32, 10, 120}, MaxBytes - 2),
             c \in BOOLEAN,
             t \in {<<>>, <<32, 120>>}}
    \* a header: bytes out of x % LF, then %PDF-1.7 or %PDF- or NOT, then the rest
    \cup {[kind |-> "header", pre |-> e, part |-> p, closed |-> FALSE, tail |-> t] :
             e \in SeqsUpTo({120, 37, 10}, MaxBytes - 3),
             p \in {PdfHeader \o <<49, 46, 55>>, PdfHeader, <<78, 79, 84>>},
             t \in {<<>>, <<10, 49>>, <<13, 10, 49>>}}

\* the buffer a source stands for
SourceBytes(s) ==
    IF s.kind \in {"literal", "octal"} THEN HeaderLine \o <<40>> \o s.part
    ELSE IF s.kind = "hex" THEN HeaderLine \o <<60>> \o s.part
    ELSE IF s.kind = "delimiters" THEN HeaderLine \o s.part
    ELSE IF s.kind = "stream"
        THEN HeaderLine \o StreamWord \o s.pre \o s.part
                 \o (IF s.closed THEN EndStream ELSE <<>>) \o s.tail
    ELSE s.pre \o s.part \o s.tail

InitTokenizer ==
    /\ source \in Sources
    /\ buffer = SourceBytes(source)
    /\ position = 0
    /\ emitted = NoToken
    /\ tokens = <<>>
    /\ currentTokenIndex = 0
    /\ indirectObjectsMap = <<>>
    /\ objects = <<>>
    /\ xrefTable = <<>>
    /\ trailer = Null
    /\ version = ""
    /\ pc = "new"
    /\ error = ""
    /\ calls = <<>>
    /\ sample = NoSample
    /\ parsedMap = <<>>
    /\ resolvedCache = {}
    /\ resolvingStack = {}
    /\ last = NoCall
    /\ NoPageYet

---------------------------------------------------------------------------
(* The tokenizer's operation, and the parser's constructor on a buffer *)

\* one call of nextToken() on the tokenizer
NextToken ==
    /\ pc = "new"
    /\ LET r == nextToken(buffer, position) IN
       /\ position' = r.pos
       /\ emitted' = [called |-> TRUE,
                      before |-> position,
                      start |-> IF position = 0 THEN 0
                                ELSE skipWhitespaceAndComments(buffer, position),
                      ok |-> r.ok, token |-> r.token, err |-> r.err, at |-> r.at]
    /\ UNCHANGED <<buffer, source, indirectObjectsMap, resolverVars, parserVars, pageVars,
                   contentVars>>

\* new FileStructureParser(buffer): the constructor makes a tokenizer of its own
Construct ==
    /\ pc = "new"
    /\ ~emitted.called
    /\ LET r == getAllTokens(buffer, 0, <<>>) IN
       /\ tokens' = r.tokens
       /\ pc' = r.outcome
       /\ error' = r.err
    /\ UNCHANGED <<tokenizerVars, indirectObjectsMap, resolverVars, currentTokenIndex,
                   objects, xrefTable, trailer, version, calls, sample, pageVars,
                   contentVars>>

NextTokenizer == NextToken \/ Construct

SpecTokenizer == InitTokenizer /\ [][NextTokenizer]_vars

---------------------------------------------------------------------------
(* Building a page from the table, and asking it its measures *)

InitPage ==
    /\ tree \in Trees
    /\ indirectObjectsMap = PageTable(tree)
    /\ parsedMap = indirectObjectsMap
    /\ resolvedCache = {}
    /\ resolvingStack = {}
    /\ last = NoCall
    /\ page = NoPage("no")
    /\ measured = NoMeasure
    /\ _isContentParsed = FALSE
    /\ _parsedContent = Undefined
    /\ tasks = <<>>
    /\ fresh = NoFresh
    /\ tokens = <<>>
    /\ currentTokenIndex = 0
    /\ objects = <<>>
    /\ xrefTable = <<>>
    /\ trailer = Null
    /\ version = ""
    /\ pc = "parsed"
    /\ error = ""
    /\ calls = <<>>
    /\ sample = NoSample
    /\ buffer = <<>>
    /\ position = 0
    /\ emitted = NoToken
    /\ source = NoSource

\* pageDict = resolver.resolveIndirectReference(pageRef).value, then
\* new PDFPage(pageRef, pageDict, resolver)
BuildPage(st, pageRef) ==
    LET OnDict(after, pageDict) == PDFPage(after, pageRef, pageDict)
        Got(d) == IF d.outcome # "ok" THEN [st |-> d.st, page |-> NoPage(d.outcome)]
                  ELSE OnDict(d.st, ValueField(d.st.map, d.value))
    IN Got(resolveIndirectReference(st, pageRef, FALSE, TRUE, 1))

Build ==
    /\ page.built = "no"
    /\ LET Put(b) == /\ page' = b.page
                      /\ indirectObjectsMap' = b.st.map
                      /\ resolvedCache' = b.st.cache
                      /\ resolvingStack' = b.st.stack
       IN Put(BuildPage(Here, Ref(PageKey(1))))
    /\ UNCHANGED <<parsedMap, last, parserVars, tokenizerVars, tree, measured, contentVars>>

\* the getters, called on the page that was built
Measure ==
    /\ page.built = "ok"
    /\ measured' = [called |-> TRUE,
                    width |-> getWidth(page),
                    height |-> getHeight(page),
                    rotation |-> getRotation(page),
                    landscape |-> isLandscape(page)]
    /\ UNCHANGED <<indirectObjectsMap, resolverVars, parserVars, tokenizerVars, tree, page,
                   contentVars>>

NextPage == Build \/ Measure

SpecPage == InitPage /\ [][NextPage]_vars

---------------------------------------------------------------------------
(* The content cache of a page: render(), getTextContent(), clearContentCache() *)

Slots == 1 .. MaxTasks

NoTask == [pc |-> "idle", op |-> "none"]

\* the array streamParser.parse() resolves to
ParsedOperations == ArrayOf(<<Str("operation")>>)

\* the pages the calls are made on: a lone leaf with and without a MediaBox
ContentTrees ==
    {t \in Trees : /\ t.kind = "boxes"
                   /\ Len(t.nodes) = 1
                   /\ t.nodes[1] \in {Node(m, Undefined, Ref(ResourcesKey(1)), Undefined,
                                           Undefined) : m \in {Undefined, BoxAt(1)}}}

InitContent ==
    /\ tree \in ContentTrees
    /\ parsedMap = PageTable(tree)
    /\ LET Put(b) == /\ page = b.page
                      /\ indirectObjectsMap = b.st.map
                      /\ resolvedCache = b.st.cache
                      /\ resolvingStack = b.st.stack
       IN Put(BuildPage(ResolverState(parsedMap, {}, {}), Ref(PageKey(1))))
    /\ last = NoCall
    /\ measured = NoMeasure
    /\ _isContentParsed = FALSE
    /\ _parsedContent = Undefined
    /\ tasks = [t \in Slots |-> NoTask]
    /\ fresh = NoFresh
    /\ tokens = <<>>
    /\ currentTokenIndex = 0
    /\ objects = <<>>
    /\ xrefTable = <<>>
    /\ trailer = Null
    /\ version = ""
    /\ pc = "parsed"
    /\ error = ""
    /\ calls = <<>>
    /\ sample = NoSample
    /\ buffer = <<>>
    /\ position = 0
    /\ emitted = NoToken
    /\ source = NoSource

isContentCached == _isContentParsed

\* the call in slot t is suspended at an await
Awaiting(t) == tasks[t].pc \in {"parsing", "drawing"}

\* where a call stands once the content is there. render() computes the transform
\* from getWidth() and getHeight() and awaits graphicsEngine.render();
\* getTextContent() returns what extractText() gives, or throws what it throws
AfterParse(op) ==
    IF op = "render"
    THEN IF getWidth(page).ok /\ getHeight(page).ok THEN {"drawing"} ELSE {"rejected"}
    ELSE {"returned", "rejected"}

\* a call of render() or getTextContent(), up to its first await: with the content
\* cached it goes on at once; otherwise streamParser.parse() is called, which throws
\* there and then or hands back a value or promise that the call awaits
Begin(t, op) ==
    /\ page.built = "ok"
    /\ ~Awaiting(t)
    /\ \E next \in IF _isContentParsed THEN AfterParse(op) ELSE {"parsing", "rejected"} :
           tasks' = [tasks EXCEPT ![t] = [pc |-> next, op |-> op]]
    /\ fresh' = [fresh EXCEPT !.begun = @ \cup {t}]
    /\ UNCHANGED <<_isContentParsed, _parsedContent>>

\* the continuation after await streamParser.parse(...)
Resume(t, next) ==
    /\ _parsedContent' = ParsedOperations
    /\ _isContentParsed' = TRUE
    /\ tasks' = [tasks EXCEPT ![t].pc = next]
    /\ fresh' = [fresh EXCEPT !.marked = IF _isContentParsed THEN @
                                         ELSE IF t \in fresh.begun THEN "fresh"
                                         ELSE "stale"]

Render ==
    /\ \E t \in Slots : Begin(t, "render")
    /\ UNCHANGED <<indirectObjectsMap, resolverVars, parserVars, tokenizerVars, pageVars>>

GetTextContent ==
    /\ \E t \in Slots : Begin(t, "getTextContent")
    /\ UNCHANGED <<indirectObjectsMap, resolverVars, parserVars, tokenizerVars, pageVars>>

\* the promise of parse() settles and the call that awaits it goes on
ParseSettles ==
    /\ \E t \in Slots :
           /\ tasks[t].pc = "parsing"
           /\ \/ \E next \in AfterParse(tasks[t].op) : Resume(t, next)
              \/ /\ tasks' = [tasks EXCEPT ![t].pc = "rejected"]
                 /\ UNCHANGED <<_isContentParsed, _parsedContent, fresh>>
    /\ UNCHANGED <<indirectObjectsMap, resolverVars, parserVars, tokenizerVars, pageVars>>

\* the promise of graphicsEngine.render() settles
DrawSettles ==
    /\ \E t \in Slots :
           /\ tasks[t].pc = "drawing"
           /\ \E next \in {"returned", "rejected"} :
                  tasks' = [tasks EXCEPT ![t].pc = next]
    /\ UNCHANGED <<_isContentParsed, _parsedContent, fresh>>
    /\ UNCHANGED <<indirectObjectsMap, resolverVars, parserVars, tokenizerVars, pageVars>>

ClearContentCache ==
    /\ page.built = "ok"
    /\ _parsedContent' = Undefined
    /\ _isContentParsed' = FALSE
    /\ fresh' = [cleared |-> TRUE, begun |-> {}, marked |-> "none"]
    /\ UNCHANGED tasks
    /\ UNCHANGED <<indirectObjectsMap, resolverVars, parserVars, tokenizerVars, pageVars>>

NextContent ==
    Render \/ GetTextContent \/ ParseSettles \/ DrawSettles \/ ClearContentCache

SpecContent == InitContent /\ [][NextContent]_vars

---------------------------------------------------------------------------
(* The reference graph of the table as parsed *)

RECURSIVE RefsIn(_)
RECURSIVE RefsInSeq(_)

\* the keys of all references stored anywhere in a parsed value
RefsIn(v) ==
    LET type == getPDFObjectType(v) IN
    IF type = "reference" THEN {KeyOf(v)}
    ELSE IF type = "array" THEN RefsInSeq(v.items)
    ELSE IF type = "dictionary" THEN RefsInSeq([i \in 1 .. Len(v.entries) |-> v.entries[i].v])
    ELSE IF type = "stream" THEN RefsIn(v.dictionary)
    ELSE IF type = "indirect-object" /\ ~IsTableObj(v) THEN RefsIn(v.value)
    ELSE {}

RefsInSeq(s) == IF s = <<>> THEN {} ELSE RefsIn(Head(s)) \cup RefsInSeq(Tail(s))

Targets(map, keys) ==
    UNION {RefsIn(map[k]) : k \in keys \cap DOMAIN map}

RECURSIVE ReachFrom(_, _, _)

\* the keys reachable from the keys in frontier by one or more references
ReachFrom(map, frontier, found) ==
    LET new == Targets(map, frontier) \ found IN
    IF new = {} THEN found ELSE ReachFrom(map, new, found \cup new)

OnCycle(map, k) == k \in ReachFrom(map, {k}, {})

Acyclic(map) == \A k \in DOMAIN map : ~OnCycle(map, k)

NoMissing(map) == Targets(map, DOMAIN map) \subseteq DOMAIN map

RECURSIVE HasRef(_, _, _)
RECURSIVE HasRefSeq(_, _, _)

\* a reference is left somewhere in the tree of v, looking through the resolved
\* indirect objects it holds (seen: the table objects already looked through)
HasRef(map, v, seen) ==
    LET type == getPDFObjectType(v) IN
    IF type = "reference" THEN TRUE
    ELSE IF type = "array" THEN HasRefSeq(map, v.items, seen)
    ELSE IF type = "dictionary"
        THEN HasRefSeq(map, [i \in 1 .. Len(v.entries) |-> v.entries[i].v], seen)
    ELSE IF type = "stream" THEN HasRef(map, v.dictionary, seen)
    ELSE IF type = "indirect-object"
        THEN IF IsTableObj(v)
             THEN KeyOf(v) \notin seen /\ HasRef(map, map[KeyOf(v)], seen \cup {KeyOf(v)})
             ELSE HasRef(map, v.value, seen)
    ELSE FALSE

HasRefSeq(map, s, seen) ==
    IF s = <<>> THEN FALSE
    ELSE HasRef(map, Head(s), seen) \/ HasRefSeq(map, Tail(s), seen)

Called == last.outcome # "none"

Raised == last.outcome \in {"unknown", "circular"}

---------------------------------------------------------------------------
(* Claims about the resolver *)

\* C1: on a fresh resolver, for a table with no missing key and no cycle, a Deep
\* resolve returns an indirect object whose value tree holds no reference at all.
C1_DeepLeavesNoRef ==
    (/\ last.first /\ last.deep /\ last.key \in DOMAIN parsedMap
     /\ NoMissing(parsedMap) /\ Acyclic(parsedMap))
    => /\ last.outcome = "ok"
       /\ ~HasRef(indirectObjectsMap, indirectObjectsMap[last.key], {last.key})

\* C2: whenever a Shallow resolve of a key of the table returns, the object it
\* returns has the value the parser gave it, with every nested reference unfollowed.
C2_ShallowIsVerbatim ==
    (Called /\ ~last.deep /\ last.silent /\ last.key \in DOMAIN parsedMap)
    => /\ last.outcome = "ok"
       /\ indirectObjectsMap[last.key] = parsedMap[last.key]

\* C3: a resolve of a key that is absent from the table raises the unknown-reference
\* error naming that key, in either mode and with either cycle policy; it never returns.
C3_UnknownReferenceRaised ==
    (Called /\ last.key \notin DOMAIN parsedMap)
    => /\ last.outcome = "unknown"
       /\ last.err = last.key

C3_Witness ==
    /\ Called
    /\ last.key \notin DOMAIN parsedMap
    /\ last.deep
    /\ last.outcome = "unknown"

\* C4: on a resolver with an empty cache, a Deep resolve with on_cycle = Error of a
\* key that lies on a reference cycle raises the circular-reference error (stated
\* here for the tables in which no key is missing).
C4_CycleRaises ==
    (/\ Called /\ last.deep /\ ~last.silent /\ last.emptyCache
     /\ NoMissing(parsedMap)
     /\ OnCycle(parsedMap, last.key))
    => /\ last.outcome = "circular"
       /\ OnCycle(parsedMap, last.err)

\* C5: a Deep resolve with on_cycle = Silent always comes back, by returning or by
\* raising the unknown-reference error: the recursion never exhausts the call stack,
\* whatever cycles the table holds.
C5_SilentDeepTerminates ==
    (Called /\ last.deep /\ last.silent) => last.outcome \in {"ok", "unknown"}

C5_Witness ==
    /\ Called /\ last.deep /\ last.silent
    /\ OnCycle(parsedMap, last.key)
    /\ last.outcome = "ok"

\* C6: when resolve(r, Deep, Silent) has returned and is called again, the second
\* call returns the same object with the same structure, and is served from the
\* cache without consulting the object table.
C6_SecondCallFromCache ==
    (last.deep /\ last.silent /\ last.again \in {"same", "differs"})
    => /\ last.again = "same"
       /\ ~last.consulted

\* C7: after a resolve call has raised, the visiting set is empty again.
C7_StackEmptyAfterError == Raised => resolvingStack = {}

\* C8: no sequence of resolve calls changes the value stored in any table entry.
C8_TableNeverRewritten == indirectObjectsMap = parsedMap

---------------------------------------------------------------------------
(* What the sampled file says, read off the way it was put together *)

RECURSIVE Flatten(_)

\* the object definitions of all sections, in file order
Flatten(bodies) == IF bodies = <<>> THEN <<>> ELSE Head(bodies) \o Flatten(Tail(bodies))

Defs == Flatten(sample.bodies)

DefinedKeys == {Defs[i].key : i \in 1 .. Len(Defs)}

\* the definition of key that comes last in file order
LastDef(key) ==
    Defs[CHOOSE i \in 1 .. Len(Defs) :
             /\ Defs[i].key = key
             /\ \A j \in (i + 1) .. Len(Defs) : Defs[j].key # key]

DefinedTwice(key) ==
    \E i, j \in 1 .. Len(Defs) :
        i < j /\ Defs[i].key = key /\ Defs[j].key = key /\ Defs[i].value # Defs[j].value

\* resolve(ref(key)) on a resolver constructed on the parsed table
ResolveParsed(key) ==
    resolveIndirectReference(ResolverState(indirectObjectsMap, {}, {}), Ref(key),
                             FALSE, TRUE, 1)

\* every R of the payload closes a window Integer Integer R of its own
WellFormed(payload) ==
    \A i \in 1 .. Len(payload) :
        payload[i] = "R" => i >= 3 /\ payload[i - 1] # "R" /\ payload[i - 2] # "R"

RECURSIVE Denote(_)

\* the values a well-formed payload stands for, by the grammar
\*     value := int | ref      ref := int int "R"
Denote(payload) ==
    LET n == Len(payload) IN
    IF n = 0 THEN <<>>
    ELSE IF payload[n] = "R"
        THEN Append(Denote(SubSeq(payload, 1, n - 3)),
                    Ref(<<Tokenize(payload[n - 2]).value, Tokenize(payload[n - 1]).value>>))
    ELSE Append(Denote(SubSeq(payload, 1, n - 1)), Num(Tokenize(payload[n]).value))

\* what the three tokens from position at on make of the INTEGER at that position
WindowKind(at) ==
    IF at + 2 < Len(tokens) /\ TypeAt(tokens, at + 1) = "INTEGER"
    THEN IF TypeAt(tokens, at + 2) = "OBJ_START" THEN "object"
         ELSE IF TypeAt(tokens, at + 2) = "INDIRECT_REFERENCE" THEN "reference"
         ELSE "integer"
    ELSE "integer"

---------------------------------------------------------------------------
(* Claims about the structure parser *)

\* C9: when the parsed file defines indirect object (k, g) more than once, the
\* table entry for (k, g), and so the value resolve(ref(k, g)) returns, is the
\* definition that comes last in file order; an object with the same number and
\* another generation stays resolvable under its own key.
C9_LastDefinitionWins ==
    (sample.kind = "struct" /\ pc = "parsed")
    => /\ DOMAIN indirectObjectsMap = DefinedKeys
       /\ \A key \in DefinedKeys :
              /\ indirectObjectsMap[key] = LastDef(key).value
              /\ ResolveParsed(key).outcome = "ok"
              /\ ValueField(ResolveParsed(key).st.map, ResolveParsed(key).value)
                     = LastDef(key).value

C9_Witness ==
    /\ sample.kind = "struct"
    /\ pc = "parsed"
    /\ Len(sample.bodies) = 2
    /\ DefinedTwice(<<2, 0>>)
    /\ <<2, 1>> \in DefinedKeys
    /\ \E i \in 1 .. Len(sample.bodies[2]) : sample.bodies[2][i].key = <<2, 0>>
    /\ indirectObjectsMap[<<2, 0>>] = LastDef(<<2, 0>>).value
    /\ indirectObjectsMap[<<2, 1>>] = LastDef(<<2, 1>>).value

\* C10: where the parser reads a value, Integer k, Integer g, R yields Ref{k, g},
\* Integer k, Integer g, obj starts indirect object (k, g), and an Integer in
\* any other context parses as the integer itself (the integers before the
\* reference in [1 2 3 0 R] included); references are recorded as they are
\* written, whether or not the file defines their target.
C10_IntegerWindows ==
    /\ \A i \in 1 .. Len(calls) : calls[i].kind = WindowKind(calls[i].at)
    /\ (sample.kind = "value" /\ pc \notin {"parseHeader", "parseBody"})
       => IF WellFormed(sample.payload)
          THEN /\ pc # "failed"
               /\ indirectObjectsMap = (<<1, 0>> :> ArrayOf(Denote(sample.payload)))
               /\ objects = <<IndObj(1, 0, ArrayOf(Denote(sample.payload)))>>
          ELSE /\ pc = "failed"
               /\ error = "Unexpected token in object value"
               /\ indirectObjectsMap = <<>>

C10_Witness ==
    /\ pc = "parsed"
    /\ sample.payload = <<"1", "2", "3", "0", "R">>
    /\ indirectObjectsMap[<<1, 0>>] = ArrayOf(<<Num(1), Num(2), Ref(<<3, 0>>)>>)
    /\ \E i \in 1 .. Len(calls) : calls[i] = [at |-> 7, kind |-> "reference"]

\* the key/value pairs written in the sampled dictionary, and what the parser
\* makes of a written value that stands alone
WrittenKeys == {sample.entries[i].k : i \in 1 .. Len(sample.entries)}

LastWritten(key) ==
    sample.entries[CHOOSE i \in 1 .. Len(sample.entries) :
                       /\ sample.entries[i].k = key
                       /\ \A j \in (i + 1) .. Len(sample.entries) : sample.entries[j].k # key].v

ReadAlone(value) == parseNextObject(WrittenTokens(value), ParserState(0, <<>>, <<>>)).value

EntriesOf(key, entries) == {i \in 1 .. Len(entries) : entries[i].k = key}

DictParsed == sample.kind = "dict" /\ pc \notin {"parseHeader", "parseBody"}

\* C11: a dictionary written with the same key K more than once parses to a
\* dictionary with exactly one entry for K, holding the last value parsed for K.
C11_LastDuplicateKeyWins ==
    DictParsed
    => /\ pc # "failed"
       /\ <<1, 0>> \in DOMAIN indirectObjectsMap
       /\ getPDFObjectType(indirectObjectsMap[<<1, 0>>]) = "dictionary"
       /\ LET entries == indirectObjectsMap[<<1, 0>>].entries IN
          /\ {entries[i].k : i \in 1 .. Len(entries)} = WrittenKeys
          /\ \A key \in WrittenKeys :
                 /\ Cardinality(EntriesOf(key, entries)) = 1
                 /\ DictGet(entries, key) = ReadAlone(LastWritten(key))

C11_Witness ==
    /\ DictParsed
    /\ sample.entries = <<[k |-> "Type", v |-> WrittenInt(1)],
                          [k |-> "Kind", v |-> WrittenName("Catalog")],
                          [k |-> "Type", v |-> WrittenInt(2)]>>
    /\ indirectObjectsMap[<<1, 0>>]
           = MapOf(<<Entry("Type", Num(2)), Entry("Kind", ReadAlone(WrittenName("Catalog")))>>)

\* the trailers the parser holds: this.trailer is the one field a trailer is kept in
RecordedTrailers == IF trailer = Null THEN <<>> ELSE <<trailer>>

\* the record parseTrailer builds from the trailer written for section n
TrailerOf(n) ==
    [Size |-> IF sample.trailers[n].size THEN Num(2 + n) ELSE Undefined,
     Root |-> IF sample.trailers[n].root THEN Ref(<<n, 0>>) ELSE Undefined,
     Prev |-> IF n = 1 THEN Undefined ELSE Num(100 + n)]

SameTrailer(recorded, written) ==
    /\ recorded.Size = written.Size
    /\ recorded.Root = written.Root
    /\ recorded.Prev = written.Prev

TrailersParsed == sample.kind = "trailers" /\ pc = "parsed"

\* C12: parse() consumes every body/xref/trailer section up to the Eof token;
\* every one of the n trailers of the file is recorded, in file order, and the
\* head trailer is the trailer of the last section.
C12_EveryTrailerRecorded ==
    /\ (sample.kind = "trailers" /\ pc \in {"expectEOF", "parsed"})
       => /\ TypeAt(tokens, currentTokenIndex - (IF pc = "parsed" THEN 1 ELSE 0)) = "EOF"
          /\ SameTrailer(trailer, TrailerOf(Len(sample.trailers)))
    /\ TrailersParsed
       => /\ Len(RecordedTrailers) = Len(sample.trailers)
          /\ \A n \in 1 .. Len(sample.trailers) :
                 SameTrailer(RecordedTrailers[n], TrailerOf(n))

\* C13: a file whose trailer dictionary lacks Size or lacks Root does not parse:
\* parse() never completes with a head trailer whose Size or Root is missing.
C13_TrailerNeedsSizeAndRoot ==
    (sample.kind = "trailers" /\ pc = "parsed")
    => /\ trailer.Size # Undefined
       /\ trailer.Root # Undefined

\* the sections whose xref section lists object number id
ListedIn(id) ==
    {n \in 1 .. Len(sample.xrefs) :
        id \in sample.xrefs[n].start .. (sample.xrefs[n].start + Len(sample.xrefs[n].flags) - 1)}

Listed == {id \in 0 .. (MaxXRefEntries + 1) : ListedIn(id) # {}}

\* the entry of id in the last section that lists it
LastListed(id) ==
    LET n == CHOOSE m \in ListedIn(id) : \A k \in ListedIn(id) : k <= m
        i == id - sample.xrefs[n].start + 1
    IN [offset |-> WrittenOffset(n, i), generationNumber |-> n - 1,
        inUse |-> sample.xrefs[n].flags[i] = "n"]

\* C14: after parse() the cross-reference table maps each object number to the
\* entry of the last xref section that lists it, entries of earlier sections
\* for numbers not listed again are kept, and an entry is in use exactly when
\* its flag is n.
C14_LaterXRefShadowsEarlier ==
    (sample.kind = "xrefs" /\ pc = "parsed")
    => /\ DOMAIN xrefTable = Listed
       /\ \A id \in Listed : xrefTable[id] = LastListed(id)

C14_Witness ==
    /\ sample.kind = "xrefs"
    /\ pc = "parsed"
    /\ sample.xrefs = <<[start |-> 0, flags |-> <<"f", "n">>], [start |-> 1, flags |-> <<"f">>]>>
    /\ xrefTable = (0 :> XRefEntry(101, 0, FALSE) @@ 1 :> XRefEntry(201, 1, FALSE))

\* a written value as the object graph is to hold it: a name is its text,
\* without the slash it is written with
Stored(value) ==
    IF value.w = "int" THEN Num(value.n)
    ELSE IF value.w = "name" THEN Str(value.s)
    ELSE ArrayOf(<<Str(value.s)>>)

\* C15: every Name of the parsed object graph, a dictionary key, a name-valued
\* entry or an array element, is stored without its leading slash:
\* << /Type /Catalog >> gives the key Type with the value Catalog.
C15_NamesWithoutSlash ==
    (DictParsed /\ pc # "failed")
    => LET entries == indirectObjectsMap[<<1, 0>>].entries IN
       /\ {entries[i].k : i \in 1 .. Len(entries)} = WrittenKeys
       /\ \A key \in WrittenKeys : DictGet(entries, key) = Stored(LastWritten(key))

---------------------------------------------------------------------------
(* What the sampled buffer says, read off the way it was put together *)

\* the offset of the first byte after the header line of a sampled buffer
AfterHeaderLine == Len(HeaderLine)

\* the call that starts at the byte after the header line has been made
FirstTokenRead == emitted.called /\ emitted.before # 0 /\ emitted.start = AfterHeaderLine

RECURSIVE Balancing(_, _, _)

\* the offset of the parenthesis that balances the one opened before offset i,
\* depth parentheses being open at i; a backslash takes the byte after it out
\* of the count; -1 when the buffer ends first
Balancing(buf, i, depth) ==
    IF i >= Len(buf) THEN -1
    ELSE IF ByteAt(buf, i) = 92 THEN Balancing(buf, i + 2, depth)
    ELSE IF ByteAt(buf, i) = 40 THEN Balancing(buf, i + 1, depth + 1)
    ELSE IF ByteAt(buf, i) = 41
        THEN IF depth = 1 THEN i ELSE Balancing(buf, i + 1, depth - 1)
    ELSE Balancing(buf, i + 1, depth)

RECURSIVE Unescaped(_)

\* the bytes a literal-string payload of letters, parentheses and backslashes
\* decodes to: \n is byte 10, any other escaped byte is the byte itself
Unescaped(payload) ==
    IF payload = <<>> THEN <<>>
    ELSE IF Head(payload) = 92
        THEN IF Len(payload) = 1 THEN <<>>
             ELSE <<IF payload[2] = 110 THEN 10 ELSE payload[2]>>
                      \o Unescaped(SubSeq(payload, 3, Len(payload)))
    ELSE <<Head(payload)>> \o Unescaped(Tail(payload))

ClosingParen == Balancing(buffer, AfterHeaderLine + 1, 1)

\* C16: a literal string takes exactly its top-level ( and the ) that balances
\* it: bare nested parentheses stay in the payload and count, escaped ones are
\* the parenthesis byte and do not count, and the token ends at the first bare )
\* that brings the depth to zero; (a(b\)c)\n) decodes to a(b)c) and byte 10.
C16_BalancedLiteralString ==
    (source.kind = "literal" /\ FirstTokenRead /\ ClosingParen # -1)
    => /\ emitted.ok
       /\ emitted.token.type = "STRING"
       /\ emitted.token.value = Unescaped(Slice(buffer, AfterHeaderLine + 1, ClosingParen))
       /\ position = ClosingParen + 1

C16_Witness ==
    /\ source.kind = "literal"
    /\ source.part = BalanceExample
    /\ FirstTokenRead
    /\ emitted.token = Token("STRING", <<97, 40, 98, 41, 99, 41, 10>>)
    /\ position = Len(buffer)

\* C17: when the buffer ends before the ) that balances a literal string or
\* before the > that closes a hex string, nextToken() raises an error; no
\* String or HexString token is made of the truncated payload.
C17_UnterminatedStringRaises ==
    /\ (source.kind = "literal" /\ FirstTokenRead /\ ClosingParen = -1) => ~emitted.ok
    /\ (source.kind = "hex" /\ FirstTokenRead /\ \A i \in 1 .. Len(source.part) :
                                                     source.part[i] # 62)
       => ~emitted.ok

\* a delimiter byte at offset i that starts no token: ) { } or a > that is not
\* the first byte of >>
Stray(buf, i) ==
    \/ ByteAt(buf, i) \in {41, 123, 125}
    \/ ByteAt(buf, i) = 62 /\ ~(i + 1 < Len(buf) /\ ByteAt(buf, i + 1) = 62)

\* C18: when the cursor stands on a delimiter byte that cannot start a token
\* there, nextToken() raises an error that reports the offset; it returns no
\* token for that byte.
C18_StrayDelimiterRaises ==
    (/\ emitted.called
     /\ emitted.before # 0
     /\ emitted.start < Len(buffer)
     /\ Stray(buffer, emitted.start))
    => /\ ~emitted.ok
       /\ emitted.at = emitted.start

\* C19: the payload of a Stream token is exactly the bytes between the one EOL
\* after the word stream and the first endstream, payload bytes that are
\* whitespace included, and the cursor is then just past endstream.
C19_StreamPayloadExact ==
    (source.kind = "stream" /\ source.closed /\ FirstTokenRead)
    => /\ emitted.ok
       /\ emitted.token = Token("STREAM", source.part)
       /\ position = AfterHeaderLine + Len(StreamWord) + Len(source.pre) + Len(source.part)
                         + Len(EndStream)

HasHeader == source.kind = "header" /\ source.part # <<78, 79, 84>>

\* C20: the first nextToken() call on a new tokenizer returns a Header token
\* that holds the %PDF-x.y line, bytes before %PDF- being skipped, and raises an
\* error when the buffer has no %PDF-; the structure parser constructed on such
\* a buffer fails with "PDF header '%PDF-' not found".
C20_HeaderFirst ==
    /\ (source.kind = "header" /\ emitted.called /\ emitted.before = 0)
       => IF HasHeader
          THEN /\ emitted.ok
               /\ emitted.token.type = "HEADER"
               /\ emitted.token.value.value = source.part
               /\ position = Len(source.pre) + Len(source.part)
          ELSE /\ ~emitted.ok
               /\ emitted.err = "PDF header '%PDF-' not found"
               /\ position = 0
    /\ (source.kind = "header" /\ pc # "new")
       => IF HasHeader THEN pc = "constructed" /\ tokens[1].type = "HEADER"
          ELSE pc = "failed" /\ error = "PDF header '%PDF-' not found" /\ tokens = <<>>

C20_Witness ==
    /\ source.kind = "header"
    /\ source.pre = <<120, 10>>
    /\ source.part = PdfHeader \o <<49, 46, 55>>
    /\ source.tail = <<10, 49>>
    /\ emitted.called
    /\ emitted.before = 0
    /\ emitted.token = Token("HEADER", Token("HEADER", PdfHeader \o <<49, 46, 55>>))
    /\ position = 10

---------------------------------------------------------------------------
(* What the sampled page tree says, read off the way it was put together *)

Leaf == tree.nodes[1]

Has(value) == value.js # "undefined"

\* the first place on the chain, from the leaf up, where the attribute is declared;
\* 0 when no node declares it
NearestMediaBox ==
    LET at == {i \in 1 .. Len(tree.nodes) : Has(tree.nodes[i].MediaBox)} IN
    IF at = {} THEN 0 ELSE CHOOSE i \in at : \A j \in at : i <= j

NearestResources ==
    LET at == {i \in 1 .. Len(tree.nodes) : Has(tree.nodes[i].Resources)} IN
    IF at = {} THEN 0 ELSE CHOOSE i \in at : \A j \in at : i <= j

NearestRotate ==
    LET at == {i \in 1 .. Len(tree.nodes) : Has(tree.nodes[i].Rotate)} IN
    IF at = {} THEN 0 ELSE CHOOSE i \in at : \A j \in at : i <= j

\* the angle the chain declares for the leaf, 0 when none does
DeclaredRotate == IF NearestRotate = 0 THEN 0 ELSE tree.nodes[NearestRotate].Rotate.v

\* the crop box the leaf declares, its media box when it declares none
LeafBox == IF Has(Leaf.CropBox) THEN Leaf.CropBox ELSE Leaf.MediaBox

LeafUnit == IF Has(Leaf.UserUnit) THEN Leaf.UserUnit.v ELSE 1

LeafWidth == (LeafBox.items[3].v - LeafBox.items[1].v) * LeafUnit

LeafHeight == (LeafBox.items[4].v - LeafBox.items[2].v) * LeafUnit

Constructed == page.built # "no"

ResourceSlots ==
    {"Font", "XObject", "ExtGState", "ColorSpace", "Pattern", "Shading", "ProcSet",
     "Properties"}

---------------------------------------------------------------------------
(* Claims about the page builder *)

\* C21: a page built from a leaf without MediaBox (and with Resources of its own)
\* has the MediaBox of the nearest ancestor that declares one; when no node of the
\* chain declares one the build fails and no page is produced.
C21_MediaBoxInherited ==
    (Constructed /\ Has(Leaf.Resources))
    => IF NearestMediaBox = 0 THEN page.built # "ok"
       ELSE /\ page.built = "ok"
            /\ page.mediaBox = tree.nodes[NearestMediaBox].MediaBox

\* C22: when some node of the chain has /Resources, the page is built with the
\* resources of the nearest such node (the leaf itself, its parent, its grandparent,
\* ...): its Font slot has that dictionary's font key, and every slot the dictionary
\* lacks is null.
C22_ResourcesInherited ==
    (Constructed /\ NearestResources # 0)
    => /\ page.built = "ok"
       /\ LET held == ResourcesDict(tree, NearestResources).entries IN
          /\ \A slot \in ResourceSlots :
                 ~HasEntry(held, slot) => page.resources[slot] = Null
          /\ tree.fonts => /\ page.resources.Font.js = "map"
                           /\ HasEntry(page.resources.Font.entries,
                                       FontNames[NearestResources])

\* C23: the rotate of every built page is one of 0, 90, 180, 270, and is the angle
\* the chain declares for the leaf (0 when none does) brought to the nearest
\* multiple of 90 modulo 360.
C23_RotateNormalized ==
    page.built = "ok"
    => /\ IsNumber(page.rotate)
       /\ page.rotate.v \in {0, 90, 180, 270}
       /\ LET off == (page.rotate.v - DeclaredRotate) % 360 IN off <= 45 \/ off >= 315

---------------------------------------------------------------------------
(* Further claims about the resolver and the tokenizer *)

RECURSIVE HandlesIn(_)
RECURSIVE HandlesInSeq(_)

\* the keys of the table objects held anywhere in a value, looking through the
\* arrays, the dictionaries and the copies of indirect objects
HandlesIn(v) ==
    LET type == getPDFObjectType(v) IN
    IF type = "array" THEN HandlesInSeq(v.items)
    ELSE IF type = "dictionary"
        THEN HandlesInSeq([i \in 1 .. Len(v.entries) |-> v.entries[i].v])
    ELSE IF type = "indirect-object"
        THEN IF IsTableObj(v) THEN {KeyOf(v)} ELSE HandlesIn(v.value)
    ELSE {}

HandlesInSeq(s) == IF s = <<>> THEN {} ELSE HandlesIn(Head(s)) \cup HandlesInSeq(Tail(s))

RECURSIVE HeldFrom(_, _, _)

\* the table objects reached from those in frontier through the objects they hold
HeldFrom(map, frontier, found) ==
    LET new == UNION {HandlesIn(map[k]) : k \in frontier \cap DOMAIN map} \ found IN
    IF new = {} THEN found ELSE HeldFrom(map, new, found \cup new)

\* the object of key k is among the objects its own value holds
HoldsItself(map, k) == k \in HeldFrom(map, {k}, {})

\* the object of key k still has the value the parser gave it, references and all
IsStub(map, k) == map[k] = parsedMap[k] /\ RefsIn(parsedMap[k]) # {}

NoStream(map) == \A k \in DOMAIN map : getPDFObjectType(map[k]) # "stream"

\* C26: when a first resolve(r, Deep, Silent) of a key on a reference cycle has
\* returned, the structure it returned is a finite tree: no object in it is reached
\* from itself, and where the cycle closes stands an object that still has its raw
\* value, references unfollowed.
C26_CycleBrokenByStub ==
    (/\ last.first /\ last.deep /\ last.silent /\ last.outcome = "ok"
     /\ NoMissing(parsedMap) /\ NoStream(parsedMap)
     /\ OnCycle(parsedMap, last.key))
    => LET returned == {last.key} \cup HeldFrom(indirectObjectsMap, {last.key}, {}) IN
       /\ \A k \in returned : ~HoldsItself(indirectObjectsMap, k)
       /\ \E k \in returned : IsStub(indirectObjectsMap, k)

RECURSIVE OctalNumber(_)

\* the number a run of octal digits writes
OctalNumber(digits) ==
    IF digits = <<>> THEN 0
    ELSE OctalNumber(SubSeq(digits, 1, Len(digits) - 1)) * 8 + (digits[Len(digits)] - 48)

\* the sampled literal string is one octal escape and the closing parenthesis
OneOctalEscape ==
    LET n == Len(source.part) IN
    /\ source.kind = "octal"
    /\ n \in 3 .. 5
    /\ source.part[1] = 92
    /\ source.part[n] = 41
    /\ \A i \in 2 .. (n - 1) : source.part[i] \in 48 .. 55

\* C27: every element of the payload of a String token is a byte, 0..255, and a
\* literal string made of one octal escape of one to three digits decodes to the
\* single byte that is the octal number modulo 256.
C27_OctalEscapeIsByte ==
    /\ (/\ source.kind \in {"literal", "octal"} /\ FirstTokenRead
        /\ emitted.ok /\ emitted.token.type = "STRING")
       => \A i \in 1 .. Len(emitted.token.value) : emitted.token.value[i] \in 0 .. 255
    /\ (OneOctalEscape /\ FirstTokenRead)
       => /\ emitted.ok
          /\ emitted.token =
                 Token("STRING",
                       <<OctalNumber(SubSeq(source.part, 2, Len(source.part) - 1)) % 256>>)

\* C28: a nextToken() call that returns a token other than EOF leaves the cursor
\* further along than it found it, and the constructor's loop over nextToken()
\* ends, with the token list or with an error.
C28_EveryTokenAdvances ==
    /\ (emitted.called /\ emitted.ok /\ emitted.token.type # "EOF")
       => position > emitted.before
    /\ pc # "looping"

\* C29: a resolve call ends the way the same call ends on a new resolver over the
\* table as parsed, whatever calls were made before it; a Deep resolve with
\* on_cycle = Error of a key on a cycle raises the circular-reference error.
C29_OutcomeIgnoresHistory ==
    Called
    => /\ last.outcome =
              resolveIndirectReference(ResolverState(parsedMap, {}, {}), Ref(last.key),
                                       last.deep, last.silent, 1).outcome
       /\ (/\ last.deep /\ ~last.silent
           /\ NoMissing(parsedMap) /\ NoStream(parsedMap)
           /\ OnCycle(parsedMap, last.key))
          => last.outcome = "circular"

---------------------------------------------------------------------------
(* Claim about the content cache *)

====
